---- MODULE Spec2Model ----
(***************************************************************************)
(* Model of the pkger apply engine (src/pkger/service.go): the state       *)
(* coordinator, the dry run, the staged apply with its semaphore-bounded   *)
(* stage workers and error stream, the rollback coordinator and the stack  *)
(* update that follows an Apply.                                           *)
(*                                                                         *)
(* A platform resource is abstracted to [kind, id, name, val, ep]: `val`   *)
(* stands for every observable field other than the name (description,    *)
(* retention, colour, query, arguments, ...), `ep` is the EndpointID of a  *)
(* notification rule.  The resource services, the label-mapping service,   *)
(* the secret service and the stack store are external collaborators and   *)
(* are modelled as plain stores whose calls may fail.                      *)
(***************************************************************************)
EXTENDS Integers, Sequences, FiniteSets, TLC

\* ------------------------------------------------------------------ bounds
\* number of objects (resources, or the secrets map) of one scenario
MaxObjs == 2
\* number of forward service calls that fail for a reason of the environment
MaxFails == 1
\* number of compensation calls that fail for a reason of the environment
MaxCompFails == 1
\* largest width of the semaphore (Service.applyReqLimit, 5 by default)
ReqLimit == 2

\* ------------------------------------------------------------- vocabulary
KBucket == "bucket"
KCheck == "check"
KDashboard == "dashboard"
KEndpoint == "endpoint"
KLabel == "label"
KRule == "rule"
KTask == "task"
KTelegraf == "telegraf"
KVariable == "variable"

Kinds == {KBucket, KCheck, KDashboard, KEndpoint, KLabel, KRule, KTask, KTelegraf, KVariable}

StateStatusNew == "new"
StateStatusExists == "exists"
StateStatusRemove == "remove"

IsNew(status) == status = StateStatusNew \/ status = ""
IsExisting(status) == status = StateStatusExists
IsRemoval(status) == status = StateStatusRemove

\* influxdb.EUnprocessableEntity, the code of the error the dry run returns
EUnprocessableEntity == "unprocessable entity"

\* influxdb.EInternal, the code internalErr gives an error
EInternal == "internal error"

\* the nil resource / nil pointer
NoRes == [kind |-> "", id |-> 0, name |-> "", val |-> "", ep |-> 0]

\* names of the appliers (rollbacker.resource, or the kind when it has none)
ASecrets == "secrets"
ALabelMapping == "label_mapping"
ARemovedLabelMapping == "removed_label_mapping"

\* applyState: the groups handed to runTilEnd, in order
ApplierGroups ==
  << <<ASecrets>>,
     <<KLabel>>,
     <<KVariable, KBucket, KCheck, KDashboard, KEndpoint, KTask, KTelegraf>>,
     <<KRule>>,
     <<ALabelMapping, ARemovedLabelMapping>> >>

NumStages == Len(ApplierGroups)

SeqToSet(s) == {s[i] : i \in 1..Len(s)}

AllAppliers == UNION {SeqToSet(ApplierGroups[i]) : i \in 1..NumStages}

\* ------------------------------------------------------------------ state
VARIABLES
  pkg,        \* the parsed package: key <<kind, pkgName>> -> [name, val, labels, ep]
  secretsIn,  \* ApplyOpt.MissingSecrets: the keys the caller supplies
  hasStack,   \* ApplyOpt.StackID > 0
  applyReqLimit,  \* Service.applyReqLimit: the capacity of rollbackCoordinator.sem
  stack,      \* the stored stack: [res: set of StackResource, updatedAt: writes so far]
  plat,       \* the resources on the platform
  maps,       \* the label mappings on the platform: [rt, rid, lid]
  secrets,    \* the secret keys on the platform
  nextID,     \* the id generator of the resource services
  st,         \* stateCoordinator: key -> state record
  labelMappings,          \* stateCoordinator.labelMappings
  labelMappingsToRemove,  \* stateCoordinator.labelMappingsToRemove
  pc,         \* position of Apply
  stage,      \* index of the group runTilEnd is running
  appIdx,     \* index of the applier runTilEnd's loop is at
  entIdx,     \* entries of the applier at appIdx whose goroutine was started
  workers,    \* running goroutines: [item, pc]
  rollbacks,  \* rollbackCoordinator.rollbacks
  rbList,     \* applier -> its rollback list (rollbackBuckets, ...)
  collector,  \* the errStream goroutine: "recv" | "quit"
  mErrs,      \* messages the errStream collected in the running stage
  cancelled,  \* ctx.Done() is closed
  applyErr,   \* the error Apply returns: "" for nil, else its kind
  rbPos,      \* number of compensation steps the rollback has taken
  fails,      \* environment failures so far: [fwd, comp]
  hist        \* history of the run, read by the properties only

vars == <<pkg, secretsIn, hasStack, applyReqLimit, stack, plat, maps, secrets, nextID, st,
          labelMappings, labelMappingsToRemove, pc, stage, appIdx, entIdx,
          workers, rollbacks, rbList, collector, mErrs, cancelled, applyErr,
          rbPos, fails, hist>>

\* ------------------------------------------------------- state coordinator
StateKey(kind, pkgName) == <<kind, pkgName>>

\* newStateCoordinator: one record per object of the package, all NEW
newStateCoordinator(p) ==
  [k \in DOMAIN p |->
     [status |-> StateStatusNew, id |-> 0, existing |-> NoRes,
      name |-> p[k].name, val |-> p[k].val, labels |-> p[k].labels,
      epName |-> p[k].ep, assoc |-> ""]]

\* stateBucket.ID and its eight siblings
ID(r) == IF ~IsNew(r.status) /\ r.existing # NoRes THEN r.existing.id ELSE r.id

\* the synthetic record addObjectForRemoval stores: identity only
RemovalRecord(pkgName, id) ==
  [status |-> StateStatusRemove, id |-> id, existing |-> NoRes,
   name |-> pkgName, val |-> "", labels |-> {}, epName |-> "", assoc |-> ""]

\* an addObjectForRemoval that stores no record
addObjectForRemovalSkipped(s, key, id) == s

addObjectForRemoval(s, key, id) ==
  [x \in DOMAIN s \cup {key} |-> IF x = key THEN RemovalRecord(key[2], id) ELSE s[x]]

\* a setObjectID that leaves the record without the id of the stack
setObjectIDSkipped(s, key, id) == s

\* a setObjectID that sets the id and leaves the status
setObjectIDOnly(s, key, id) ==
  IF key \in DOMAIN s THEN [s EXCEPT ![key].id = id] ELSE s

\* setObjectID / getObjectIDSetter
setObjectID(s, key, id) ==
  IF key \in DOMAIN s
    THEN [s EXCEPT ![key].id = id, ![key].status = StateStatusExists]
    ELSE s

\* a Contains that finds no record
ContainsNone(s, key) == FALSE

\* stateCoordinator.Contains
Contains(s, key) == key \in DOMAIN s

RECURSIVE ReconcileFold(_, _)
ReconcileFold(s, res) ==
  IF res = {} THEN s
  ELSE LET r == CHOOSE x \in res : TRUE
           key == StateKey(r.kind, r.pkg)
           s2 == IF ~Contains(s, key)
                   THEN addObjectForRemoval(s, key, r.id)
                   ELSE setObjectID(s, key, r.id)
       IN ReconcileFold(s2, res \ {r})

\* reconcileStackResources
reconcileStackResources(s, res) == ReconcileFold(s, res)

\* a labelAssociations that answers no label
labelAssociationsNone(s, key) == {}

\* stateCoordinator.labelAssociations: the pkg names of the labels of a record
labelAssociations(s, key) ==
  IF key \in DOMAIN s /\ key[1] # KLabel THEN s[key].labels ELSE {}

\* reconcileLabelMappings: mLabelPkgNameToID
StackLabelID(res, pkgName) ==
  IF \E r \in res : r.kind = KLabel /\ r.pkg = pkgName
    THEN (CHOOSE r \in res : r.kind = KLabel /\ r.pkg = pkgName).id
    ELSE 0

\* a reconcileLabelMappings that schedules no removal
reconcileLabelMappingsNone(s, res) == {}

\* reconcileLabelMappings: stack associations that the state no longer has
reconcileLabelMappings(s, res) ==
  {[app |-> ARemovedLabelMapping, rk |-> x[1].kind, rn |-> x[1].pkg, ln |-> x[2],
    ms |-> StateStatusRemove, rid |-> x[1].id, lid |-> StackLabelID(res, x[2])] :
      x \in {y \in res \X UNION {r.assoc : r \in res} :
               /\ y[2] \in y[1].assoc
               /\ y[2] \notin labelAssociations(s, StateKey(y[1].kind, y[1].pkg))}}

\* reconcileNotificationDependencies: a stack rule gets the endpoint record the
\* stack recorded for it (nil when the state has no such endpoint)
reconcileNotificationDependencies(s, res) ==
  [k \in DOMAIN s |->
     IF k[1] = KRule /\ (\E r \in res : r.kind = KRule /\ r.pkg = k[2] /\ r.ep # "")
       THEN LET r == CHOOSE r \in res : r.kind = KRule /\ r.pkg = k[2] /\ r.ep # ""
            IN [s[k] EXCEPT !.assoc =
                  IF StateKey(KEndpoint, r.ep) \in DOMAIN s THEN r.ep ELSE ""]
       ELSE s[k]]

\* stateCoordinator.addStackState: the three passes, in order
addStackState(s, res) ==
  reconcileNotificationDependencies(reconcileStackResources(s, res), res)

\* ------------------------------------------------------------------ dry run
\* FindBucketByID and its siblings: nil when the platform has no such resource
FindByID(P, kind, id) ==
  IF \E x \in P : x.kind = kind /\ x.id = id
    THEN CHOOSE x \in P : x.kind = kind /\ x.id = id
    ELSE NoRes

\* FindBucketByName and its siblings
FindByName(P, kind, name) ==
  IF \E x \in P : x.kind = kind /\ x.name = name
    THEN CHOOSE x \in P : x.kind = kind /\ x.name = name
    ELSE NoRes

\* a dry run in which no kind is looked up by name
ByNameKindsNone == {}

\* the kinds whose dry run falls back to a lookup by name when the id is zero
ByNameKinds == {KBucket, KCheck, KLabel, KVariable}

\* a dry run that finds nothing on the platform
dryRunFindNothing(P, key, r) == NoRes

\* the lookup of dryRunBuckets, dryRunChecks, dryRunDashboards, dryRunLabels,
\* dryRunNotificationEndpoints (findEndpoint), dryRunNotificationRules,
\* dryRunTasks, dryRunTelegrafConfigs and dryRunVariables
dryRunFind(P, key, r) ==
  IF key[1] \in ByNameKinds
    THEN IF ID(r) # 0 THEN FindByID(P, key[1], ID(r)) ELSE FindByName(P, key[1], r.name)
  ELSE IF key[1] = KEndpoint
    THEN IF FindByID(P, KEndpoint, ID(r)) # NoRes
           THEN FindByID(P, KEndpoint, ID(r))
           ELSE FindByName(P, KEndpoint, r.name)
  ELSE IF ID(r) # 0 THEN FindByID(P, key[1], ID(r)) ELSE NoRes

\* the per-kind dry runs: set `existing`, promote NEW to EXISTS when found
\* (the rule dry run sets `existing` only)
dryRunResources(s, P) ==
  [k \in DOMAIN s |->
     LET existing == dryRunFind(P, k, s[k])
     IN [s[k] EXCEPT
           !.existing = existing,
           !.status = IF k[1] # KRule /\ IsNew(s[k].status) /\ existing # NoRes
                        THEN StateStatusExists ELSE @]]

\* a dry run that lets every rule pass
dryRunRulesErrNever(s) == FALSE

\* dryRunNotificationRules: a rule no endpoint of the package or stack answers for
dryRunRulesErr(s) ==
  \E k \in DOMAIN s :
     /\ k[1] = KRule
     /\ s[k].assoc = ""
     /\ ~IsRemoval(s[k].status)
     /\ StateKey(KEndpoint, s[k].epName) \notin DOMAIN s

\* dryRunNotificationRules: bind the rules the stack has not bound
dryRunRulesBind(s) ==
  [k \in DOMAIN s |->
     IF k[1] = KRule /\ s[k].assoc = "" /\ StateKey(KEndpoint, s[k].epName) \in DOMAIN s
       THEN [s[k] EXCEPT !.assoc = s[k].epName]
       ELSE s[k]]

\* dryRunLabelMappings: stateLabelsByResName, the pkg name of the label of a name
stateLabelByResName(s, name) ==
  IF \E k \in DOMAIN s : k[1] = KLabel /\ ~IsRemoval(s[k].status) /\ s[k].name = name
    THEN (CHOOSE k \in DOMAIN s : k[1] = KLabel /\ ~IsRemoval(s[k].status) /\ s[k].name = name)[2]
    ELSE ""

\* the labels FindResourceLabels answers for a resource
FindResourceLabels(P, M, kind, rid) ==
  {l \in P : l.kind = KLabel /\ [rt |-> kind, rid |-> rid, lid |-> l.id] \in M}

\* the Name() of the parsed label of a pkg name
pkgLabelName(s, ln) ==
  IF StateKey(KLabel, ln) \in DOMAIN s THEN s[StateKey(KLabel, ln)].name ELSE ln

\* dryRunResourceLabelMapping
dryRunResourceLabelMapping(s, P, M, key) ==
  LET r == s[key]
      mk(ln, ms) == [app |-> ALabelMapping, rk |-> key[1], rn |-> key[2],
                     ln |-> ln, ms |-> ms, rid |-> 0, lid |-> 0]
      existingLabels == FindResourceLabels(P, M, key[1], ID(r))
  IN IF ~IsExisting(r.status)
       THEN {mk(ln, StateStatusNew) : ln \in r.labels}
       ELSE {mk(stateLabelByResName(s, l.name), StateStatusExists) :
               l \in {x \in existingLabels : stateLabelByResName(s, x.name) # ""}}
            \cup {mk(ln, StateStatusNew) :
               ln \in {x \in r.labels :
                        pkgLabelName(s, x) \notin {l.name : l \in existingLabels}}}

\* dryRunLabelMappings: every resource that is not removed and may carry labels
dryRunLabelMappings(s, P, M) ==
  UNION {dryRunResourceLabelMapping(s, P, M, k) :
           k \in {x \in DOMAIN s : x[1] # KLabel /\ ~IsRemoval(s[x].status)}}

\* Service.dryRun, from newStateCoordinator on: the state, the label mappings
\* to add, the label mappings to remove and whether the dry run failed
dryRun(p, hs, res, P, M) ==
  LET s0 == newStateCoordinator(p)
      s1 == IF hs THEN reconcileStackResources(s0, res) ELSE s0
      toRemove == IF hs THEN reconcileLabelMappings(s1, res) ELSE {}
      s2 == IF hs THEN addStackState(s0, res) ELSE s0
      s3 == dryRunResources(s2, P)
  IN [st |-> dryRunRulesBind(s3),
      labelMappings |-> dryRunLabelMappings(dryRunRulesBind(s3), P, M),
      labelMappingsToRemove |-> toRemove,
      err |-> dryRunRulesErr(s3)]

\* ---------------------------------------------------------------- scenarios
\* the one pkg name and resource name the scenarios use
PkgName == "a"
\* the field values: ValOld is on the platform, ValNew is what a package changes it to
ValOld == "v0"
ValNew == "v1"
\* the secret key a caller may supply
SecretKey == "k"

\* how an object of a scenario relates package and platform: "new" is in the
\* package only, "same" and "update" are in both (with the same or with other
\* field values), "remove" is on the platform and in the stack only
Modes == {"new", "same", "update", "remove"}

\* the id the platform gave the resource of a kind before the Apply
PlatID(kind) ==
  CASE kind = KBucket -> 1 [] kind = KCheck -> 2 [] kind = KDashboard -> 3
    [] kind = KEndpoint -> 4 [] kind = KLabel -> 5 [] kind = KRule -> 6
    [] kind = KTask -> 7 [] kind = KTelegraf -> 8 [] kind = KVariable -> 9

\* the first id the services hand out during the Apply
FirstNewID == 10

InPkg(mode) == mode # "remove"
OnPlat(mode) == mode # "new"

\* the kinds that are applied in the stage of the primary resources
Primaries == {KVariable, KBucket, KCheck, KDashboard, KEndpoint, KTask, KTelegraf}

\* the objects a scenario counts: the endpoint of a rule comes with the rule
CountedKinds(S) == S \ (IF KRule \in S THEN {KEndpoint} ELSE {})

Counted(S, sec) == Cardinality(CountedKinds(S)) + (IF sec THEN 1 ELSE 0)

\* a scenario: the kinds S it has one object of, whether secrets are supplied,
\* whether a stack is given, the width of the semaphore, the mode of each object
\* and whether the package (pa), the stack (sa) and the platform (pm) associate
\* the label with the other resources
ScenarioOK(S, sec, hs, w, mode, pa, sa, pm) ==
  /\ Counted(S, sec) \in 1..MaxObjs
  /\ Counted(S, sec) >= 2 => (sec \/ CountedKinds(S) \cap {KLabel, KEndpoint} # {})
  /\ w = ReqLimit \/ Cardinality(S \cap Primaries) >= ReqLimit
  /\ (\E k \in S : mode[k] = "remove") => hs
  /\ (KRule \in S /\ OnPlat(mode[KRule])) => (KEndpoint \in S /\ OnPlat(mode[KEndpoint]))
  /\ (pa \/ sa \/ pm) => (KLabel \in S /\ S # {KLabel})
  /\ pa => \E k \in S \ {KLabel} : InPkg(mode[k]) /\ InPkg(mode[KLabel])
  /\ sa => hs /\ \E k \in S \ {KLabel} : OnPlat(mode[k])
  /\ pm => \E k \in S \ {KLabel} : OnPlat(mode[k]) /\ OnPlat(mode[KLabel])

\* the resources the package, the stack and the platform associate the label with
PkgAssoc(S, mode, pa) ==
  IF pa /\ KLabel \in S /\ InPkg(mode[KLabel])
    THEN {k \in S \ {KLabel} : InPkg(mode[k])} ELSE {}

StackAssoc(S, mode, hs, sa) ==
  IF sa /\ hs THEN {k \in S \ {KLabel} : OnPlat(mode[k])} ELSE {}

PlatAssoc(S, mode, pm) ==
  IF pm /\ KLabel \in S /\ OnPlat(mode[KLabel])
    THEN {k \in S \ {KLabel} : OnPlat(mode[k])} ELSE {}

ScenarioPkg(S, mode, pa) ==
  [key \in {StateKey(k, PkgName) : k \in {x \in S : InPkg(mode[x])}} |->
     [name |-> PkgName,
      val |-> IF mode[key[1]] = "same" THEN ValOld ELSE ValNew,
      labels |-> IF key[1] \in PkgAssoc(S, mode, pa) THEN {PkgName} ELSE {},
      ep |-> IF key[1] = KRule THEN PkgName ELSE ""]]

ScenarioPlat(S, mode) ==
  {[kind |-> k, id |-> PlatID(k), name |-> PkgName, val |-> ValOld,
    ep |-> IF k = KRule THEN PlatID(KEndpoint) ELSE 0] :
     k \in {x \in S : OnPlat(mode[x])}}

ScenarioStack(S, mode, hs, sa) ==
  {[kind |-> k, pkg |-> PkgName, id |-> PlatID(k),
    assoc |-> IF k \in StackAssoc(S, mode, hs, sa) THEN {PkgName} ELSE {},
    ep |-> IF k = KRule THEN PkgName ELSE ""] :
     k \in {x \in S : hs /\ OnPlat(mode[x])}}

ScenarioMaps(S, mode, pm) ==
  {[rt |-> k, rid |-> PlatID(k), lid |-> PlatID(KLabel)] : k \in PlatAssoc(S, mode, pm)}

\* what the history keeps of the Apply before the current one: nothing yet
NoFirst == [pkg |-> << >>, sum |-> [res |-> {}, maps |-> {}], stack |-> {}]

NoHist ==
  [round |-> 1, first |-> NoFirst,
   plat0 |-> {}, maps0 |-> {}, stack0 |-> {},
   created |-> {}, updated |-> {}, removed |-> {},
   mapsAdded |-> {}, mapsRemoved |-> {},
   fwdErr |-> FALSE, errStage |-> 0, swallowed |-> FALSE,
   order |-> << >>, attempts |-> 0, failedAt |-> 0, compErr |-> FALSE,
   lookupErr |-> "", unparsed |-> FALSE]

Init ==
  \E S \in SUBSET Kinds, sec \in BOOLEAN, hs \in BOOLEAN, w \in 1..ReqLimit :
    /\ Counted(S, sec) \in 1..MaxObjs
    /\ \E mode \in [S -> Modes], pa \in BOOLEAN, sa \in BOOLEAN, pm \in BOOLEAN :
         /\ ScenarioOK(S, sec, hs, w, mode, pa, sa, pm)
         /\ pkg = ScenarioPkg(S, mode, pa)
         /\ secretsIn = IF sec THEN {SecretKey} ELSE {}
         /\ hasStack = hs
         /\ applyReqLimit = w
         /\ stack = [res |-> ScenarioStack(S, mode, hs, sa), updatedAt |-> 0]
         /\ plat = ScenarioPlat(S, mode)
         /\ maps = ScenarioMaps(S, mode, pm)
         /\ hist = [NoHist EXCEPT !.plat0 = ScenarioPlat(S, mode),
                                  !.maps0 = ScenarioMaps(S, mode, pm),
                                  !.stack0 = ScenarioStack(S, mode, hs, sa)]
    /\ secrets = {}
    /\ nextID = FirstNewID
    /\ st = << >>
    /\ labelMappings = {}
    /\ labelMappingsToRemove = {}
    /\ pc = "start"
    /\ stage = 0
    /\ appIdx = 0
    /\ entIdx = 0
    /\ workers = {}
    /\ rollbacks = << >>
    /\ rbList = [a \in AllAppliers |-> << >>]
    /\ collector = "idle"
    /\ mErrs = {}
    /\ cancelled = FALSE
    /\ applyErr = ""
    /\ rbPos = 0
    /\ fails = [fwd |-> 0, comp |-> 0]

\* -------------------------------------------------------------------- apply
\* an entry of an applier, or an element of a rollback list
Item(app, rk, rn, ln, ms, rid, lid) ==
  [app |-> app, rk |-> rk, rn |-> rn, ln |-> ln, ms |-> ms, rid |-> rid, lid |-> lid]

NoItem == Item("", "", "", "", "", 0, 0)

ResourceItem(key) == Item(key[1], key[1], key[2], "", "", 0, 0)

SecretsItem == Item(ASecrets, "", "", "", "", 0, 0)

RECURSIVE SetToSeq(_)
SetToSeq(S) ==
  IF S = {} THEN << >>
  ELSE LET x == CHOOSE y \in S : TRUE IN <<x>> \o SetToSeq(S \ {x})

\* dryRunLabelMappings walks the kinds in this order
MappingKindOrder ==
  <<KBucket, KCheck, KDashboard, KEndpoint, KRule, KTask, KTelegraf, KVariable>>

RECURSIVE MappingsInOrder(_, _)
MappingsInOrder(lm, i) ==
  IF i > Len(MappingKindOrder) THEN << >>
  ELSE SetToSeq({m \in lm : m.rk = MappingKindOrder[i]}) \o MappingsInOrder(lm, i + 1)

\* creater.entries and the slice the creater indexes, per applier
Entries(app, s, lm, lmr, sin) ==
  IF app = ASecrets THEN (IF sin = {} THEN << >> ELSE <<SecretsItem>>)
  ELSE IF app = ALabelMapping THEN MappingsInOrder(lm, 1)
  ELSE IF app = ARemovedLabelMapping THEN SetToSeq(lmr)
  ELSE SetToSeq({ResourceItem(k) : k \in {x \in DOMAIN s : x[1] = app}})

\* a shouldApply that lets every record through
shouldApplyAlways(kind, r) == TRUE

\* stateBucket.shouldApply, stateLabel.shouldApply, stateVariable.shouldApply
shouldApply(kind, r) ==
  \/ IsRemoval(r.status)
  \/ r.existing = NoRes
  \/ r.val # r.existing.val
  \/ (kind # KVariable /\ r.name # r.existing.name)

\* the appliers whose creater asks shouldApply first
ShouldApplyKinds == {KBucket, KLabel, KVariable}

\* stateRule.endpointID
endpointID(s, r) ==
  IF r.assoc # "" /\ StateKey(KEndpoint, r.assoc) \in DOMAIN s
    THEN ID(s[StateKey(KEndpoint, r.assoc)])
    ELSE 0

\* applyNotificationGenerator: a rule that is kept but has no endpoint record
generatorErr(s) ==
  \E k \in DOMAIN s : k[1] = KRule /\ ~IsRemoval(s[k].status) /\ s[k].assoc = ""

\* the outcome of a service call: what the platform and the state are afterwards
Outcome(called, ok, P, M, sec, s, nid, rec) ==
  [called |-> called, ok |-> ok, plat |-> P, maps |-> M, secrets |-> sec,
   st |-> s, nextID |-> nid, rec |-> rec]

\* applyBucket, applyCheck, applyDashboard, applyLabel, applyNotificationEndpoint,
\* applyNotificationRule, applyTask, applyTelegrafConfig, applyVariable, and the
\* createFn around each of them
applyResource(key, P, M, sec, s, nid) ==
  LET r == s[key]
      kind == key[1]
      target == FindByID(P, kind, ID(r))
      ep == IF kind = KRule THEN endpointID(s, r) ELSE 0
  IN IF kind \in ShouldApplyKinds /\ ~shouldApply(kind, r)
       THEN Outcome(FALSE, TRUE, P, M, sec, s, nid, FALSE)
     ELSE IF IsRemoval(r.status)
       THEN IF target = NoRes
              THEN Outcome(TRUE, FALSE, P, M, sec, s, nid, FALSE)
              ELSE Outcome(TRUE, TRUE, P \ {target}, M, sec,
                           [s EXCEPT ![key].id = r.existing.id], nid, TRUE)
     ELSE IF IsExisting(r.status)
       THEN IF target = NoRes
              THEN Outcome(TRUE, FALSE, P, M, sec, s, nid, FALSE)
              ELSE Outcome(TRUE, TRUE,
                           (P \ {target}) \cup
                             {[target EXCEPT !.name = r.name, !.val = r.val, !.ep = ep]},
                           M, sec, [s EXCEPT ![key].id = target.id], nid, TRUE)
     ELSE Outcome(TRUE, TRUE,
                  P \cup {[kind |-> kind, id |-> nid, name |-> r.name, val |-> r.val, ep |-> ep]},
                  M, sec, [s EXCEPT ![key].id = nid], nid + 1, TRUE)

\* applySecrets: PutSecrets with the keys the caller supplied
applySecretsFn(sin, P, M, sec, s, nid) ==
  Outcome(TRUE, TRUE, P, M, sec \cup sin, s, nid, TRUE)

\* an applyLabelMappings that creates the mapping whatever its status
applyLabelMappingFnAlways(it, P, M, sec, s, nid) ==
  LET lid == IF StateKey(KLabel, it.ln) \in DOMAIN s THEN ID(s[StateKey(KLabel, it.ln)]) ELSE 0
      rid == ID(s[StateKey(it.rk, it.rn)])
  IN Outcome(TRUE, TRUE, P, M \cup {[rt |-> it.rk, rid |-> rid, lid |-> lid]},
             sec, s, nid, TRUE)

\* applyLabelMappings: the createFn
applyLabelMappingFn(it, P, M, sec, s, nid) ==
  LET lid == IF StateKey(KLabel, it.ln) \in DOMAIN s THEN ID(s[StateKey(KLabel, it.ln)]) ELSE 0
      rid == ID(s[StateKey(it.rk, it.rn)])
  IN IF IsExisting(it.ms) \/ lid = 0 \/ rid = 0
       THEN Outcome(FALSE, TRUE, P, M, sec, s, nid, FALSE)
       ELSE Outcome(TRUE, TRUE, P, M \cup {[rt |-> it.rk, rid |-> rid, lid |-> lid]},
                    sec, s, nid, TRUE)

\* removeLabelMappings: the createFn; a mapping that is not found is no error
removeLabelMappingFn(it, P, M, sec, s, nid) ==
  Outcome(TRUE, TRUE, P, M \ {[rt |-> it.rk, rid |-> it.rid, lid |-> it.lid]},
          sec, s, nid, TRUE)

\* creater.fn of the applier an entry belongs to
createFn(it, sin, P, M, sec, s, nid) ==
  IF it.app = ASecrets THEN applySecretsFn(sin, P, M, sec, s, nid)
  ELSE IF it.app = ALabelMapping THEN applyLabelMappingFn(it, P, M, sec, s, nid)
  ELSE IF it.app = ARemovedLabelMapping THEN removeLabelMappingFn(it, P, M, sec, s, nid)
  ELSE applyResource(StateKey(it.rk, it.rn), P, M, sec, s, nid)

\* ----------------------------------------------------------------- rollback
\* what a rollback update writes back, per kind: rollbackBuckets, rollbackChecks
\* and rollbackVariables take the fields of the parsed object, rollbackLabels the
\* parsed name and the existing properties, the others the existing resource
rollbackFields(kind, r, target, ep) ==
  IF kind = KBucket THEN [target EXCEPT !.val = r.val]
  ELSE IF kind \in {KCheck, KVariable} THEN [target EXCEPT !.name = r.name, !.val = r.val]
  ELSE IF kind = KLabel THEN [target EXCEPT !.name = r.name, !.val = r.existing.val]
  ELSE IF kind = KRule
    THEN [target EXCEPT !.name = r.existing.name, !.val = r.existing.val, !.ep = ep]
  ELSE [target EXCEPT !.name = r.existing.name, !.val = r.existing.val]

\* a rollback that makes a removed resource anew from the parsed object
recreatedFromParsed(r, nid, ep) == [r.existing EXCEPT !.id = nid, !.ep = ep, !.val = r.val]

\* the StateStatusRemove case of a rollbackFn: the resource is created from
\* `existing` and the service gives it an id
recreated(r, nid, ep) == [r.existing EXCEPT !.id = nid, !.ep = ep]

\* rollbackFn of rollbackBuckets, rollbackChecks, rollbackDashboards,
\* rollbackLabels, rollbackNotificationEndpoints, rollbackNotificationRules,
\* rollbackTasks, rollbackTelegrafConfigs and rollbackVariables
rollbackResource(key, P, M, sec, s, nid) ==
  LET r == s[key]
      kind == key[1]
      target == FindByID(P, kind, ID(r))
      ep == IF kind = KRule THEN endpointID(s, r) ELSE 0
  IN IF kind = KRule /\ ~IsNew(r.status) /\ r.assoc = ""
       THEN Outcome(FALSE, FALSE, P, M, sec, s, nid, FALSE)
     ELSE IF IsRemoval(r.status)
       THEN Outcome(TRUE, TRUE,
                    P \cup {recreated(r, nid, ep)}, M, sec,
                    [s EXCEPT ![key].existing.id = nid,
                              ![key].id = IF kind = KCheck THEN nid ELSE @],
                    nid + 1, FALSE)
     ELSE IF target = NoRes
       THEN Outcome(TRUE, FALSE, P, M, sec, s, nid, FALSE)
     ELSE IF IsExisting(r.status)
       THEN Outcome(TRUE, TRUE, (P \ {target}) \cup {rollbackFields(kind, r, target, ep)},
                    M, sec, s, nid, FALSE)
     ELSE Outcome(TRUE, TRUE, P \ {target}, M, sec, s, nid, FALSE)

\* the rollbacker of applySecrets: DeleteSecret is called without a key
rollbackSecretsFn(P, M, sec, s, nid) ==
  Outcome(TRUE, TRUE, P, M, sec, s, nid, FALSE)

\* rollbackLabelMappings: delete the mapping the apply created
rollbackLabelMappingFn(it, P, M, sec, s, nid) ==
  LET lid == IF StateKey(KLabel, it.ln) \in DOMAIN s THEN ID(s[StateKey(KLabel, it.ln)]) ELSE 0
      rid == ID(s[StateKey(it.rk, it.rn)])
  IN Outcome(TRUE, TRUE, P, M \ {[rt |-> it.rk, rid |-> rid, lid |-> lid]}, sec, s, nid, FALSE)

\* rollbackRemoveLabelMappings: create the mapping the stack recorded
rollbackRemoveLabelMappingFn(it, P, M, sec, s, nid) ==
  Outcome(TRUE, TRUE, P, M \cup {[rt |-> it.rk, rid |-> it.rid, lid |-> it.lid]},
          sec, s, nid, FALSE)

\* one call of a rollbacker
rollbackFn(it, P, M, sec, s, nid) ==
  IF it.app = ASecrets THEN rollbackSecretsFn(P, M, sec, s, nid)
  ELSE IF it.app = ALabelMapping THEN rollbackLabelMappingFn(it, P, M, sec, s, nid)
  ELSE IF it.app = ARemovedLabelMapping THEN rollbackRemoveLabelMappingFn(it, P, M, sec, s, nid)
  ELSE rollbackResource(StateKey(it.rk, it.rn), P, M, sec, s, nid)

\* rollbackers of which the one of the endpoints rolls the rules back first
RollbackerCallsRulesFirst(app, rbL, sin) ==
  IF app = ASecrets THEN (IF sin = {} THEN << >> ELSE <<SecretsItem>>)
  ELSE IF app = KEndpoint THEN rbL[KRule] \o rbL[KEndpoint]
  ELSE IF app = KRule THEN << >>
  ELSE rbL[app]

\* the calls one rollbacker makes: the endpoint rollbacker rolls the endpoints
\* back and then the rules, the rule rollbacker does nothing
RollbackerCalls(app, rbL, sin) ==
  IF app = ASecrets THEN (IF sin = {} THEN << >> ELSE <<SecretsItem>>)
  ELSE IF app = KEndpoint THEN rbL[KEndpoint] \o rbL[KRule]
  ELSE IF app = KRule THEN << >>
  ELSE rbL[app]

\* the steps of one rollbacker: its calls, or the bare invocation when it makes none
RollbackerSteps(app, rbL, sin) ==
  LET calls == RollbackerCalls(app, rbL, sin)
  IN IF calls = << >>
       THEN <<[rb |-> app, it |-> NoItem, first |-> TRUE]>>
       ELSE [j \in 1..Len(calls) |-> [rb |-> app, it |-> calls[j], first |-> j = 1]]

\* rollbackCoordinator.rollback: the loop over r.rollbacks, in slice order
RECURSIVE rollback(_, _, _)
rollback(rbs, rbL, sin) ==
  IF rbs = << >> THEN << >>
  ELSE RollbackerSteps(Head(rbs), rbL, sin) \o rollback(Tail(rbs), rbL, sin)

\* ------------------------------------------------------------------ actions
Group == ApplierGroups[stage]

CurEntries ==
  IF appIdx = 0 THEN << >>
  ELSE Entries(Group[appIdx], st, labelMappings, labelMappingsToRemove, secretsIn)

\* Apply up to the first runTilEnd: the dry run, then applyNotificationGenerator.
\* An error of the dry run returns before any defer is set up; an error of the
\* generator returns through the deferred rollback and stack update.
ApplyStart ==
  /\ pc = "start"
  /\ LET d == dryRun(pkg, hasStack, stack.res, plat, maps)
     IN /\ st' = d.st
        /\ labelMappings' = d.labelMappings
        /\ labelMappingsToRemove' = d.labelMappingsToRemove
        /\ IF d.err
             THEN /\ pc' = "done"
                  /\ applyErr' = EUnprocessableEntity
                  /\ UNCHANGED <<stage, collector>>
             ELSE IF generatorErr(d.st)
               THEN /\ pc' = "rollback"
                    /\ applyErr' = "apply"
                    /\ UNCHANGED <<stage, collector>>
               ELSE /\ pc' = "run"
                    /\ applyErr' = ""
                    /\ stage' = 1
                    /\ collector' = "recv"
  /\ UNCHANGED <<pkg, secretsIn, hasStack, applyReqLimit, stack, plat, maps, secrets, nextID,
                 appIdx, entIdx, workers, rollbacks, rbList, mErrs, cancelled,
                 rbPos, fails, hist>>

\* a DryRun that goes on to store the secrets, as the first stage of Apply does
DryRunPuttingSecrets ==
  /\ pc = "start"
  /\ LET d == dryRun(pkg, hasStack, stack.res, plat, maps)
     IN /\ st' = d.st
        /\ labelMappings' = d.labelMappings
        /\ labelMappingsToRemove' = d.labelMappingsToRemove
        /\ applyErr' = IF d.err THEN EUnprocessableEntity ELSE ""
        /\ secrets' = IF d.err THEN secrets ELSE secrets \cup secretsIn
  /\ pc' = "dry_done"
  /\ UNCHANGED <<pkg, secretsIn, hasStack, applyReqLimit, stack, plat, maps, nextID,
                 stage, appIdx, entIdx, workers, rollbacks, rbList, collector, mErrs,
                 cancelled, rbPos, fails, hist>>

\* Service.DryRun: the dry run builds the state and its label mappings from what
\* it reads, then the Summary and the Diff are returned; nothing is written
DryRun ==
  /\ pc = "start"
  /\ LET d == dryRun(pkg, hasStack, stack.res, plat, maps)
     IN /\ st' = d.st
        /\ labelMappings' = d.labelMappings
        /\ labelMappingsToRemove' = d.labelMappingsToRemove
        /\ applyErr' = IF d.err THEN EUnprocessableEntity ELSE ""
  /\ pc' = "dry_done"
  /\ UNCHANGED <<pkg, secretsIn, hasStack, applyReqLimit, stack, plat, maps, secrets, nextID,
                 stage, appIdx, entIdx, workers, rollbacks, rbList, collector, mErrs,
                 cancelled, rbPos, fails, hist>>

EntriesOf(i) ==
  Entries(Group[i], st, labelMappings, labelMappingsToRemove, secretsIn)

\* the applier of the next entry runTilEnd starts: the one at appIdx while it has
\* entries left, else the first later applier of the group that has an entry,
\* 0 when the group has none left
NextAppIdx ==
  IF appIdx >= 1 /\ entIdx < Len(CurEntries) THEN appIdx
  ELSE IF \E i \in (appIdx + 1)..Len(Group) : Len(EntriesOf(i)) > 0
    THEN CHOOSE i \in (appIdx + 1)..Len(Group) :
           /\ Len(EntriesOf(i)) > 0
           /\ \A j \in (appIdx + 1)..(i - 1) : Len(EntriesOf(j)) = 0
    ELSE 0

\* `r.rollbacks = append(r.rollbacks, app.rollbacker)` for the appliers the
\* outer loop of runTilEnd passes on its way from appIdx to applier `to`
registerRollbackers(rbs, from, to) ==
  rbs \o [i \in 1..(to - from) |-> Group[from + i]]

\* a semaphore that never blocks
semFreeUnbounded(ws, width) == TRUE

\* the guard of `r.sem <- struct{}{}`: a slot of the semaphore is free
semFree(ws, width) == Cardinality(ws) < width

\* runTilEnd: the loops go on to the next entry (the rollbacker of every applier
\* passed on the way is registered), take a slot and start its goroutine
Spawn ==
  /\ pc = "run"
  /\ NextAppIdx # 0
  /\ semFree(workers, applyReqLimit)
  /\ LET i == NextAppIdx
         j == IF i = appIdx THEN entIdx + 1 ELSE 1
     IN /\ workers' = workers \cup {[it |-> EntriesOf(i)[j], pc |-> "call"]}
        /\ appIdx' = i
        /\ entIdx' = j
        /\ rollbacks' = registerRollbackers(rollbacks, appIdx, i)
  /\ UNCHANGED <<pkg, secretsIn, hasStack, applyReqLimit, stack, plat, maps, secrets, nextID, st,
                 labelMappings, labelMappingsToRemove, pc, stage, rbList, collector,
                 mErrs, cancelled, applyErr, rbPos, fails, hist>>

\* runTilEnd: no entry is left to start; the outer loop registers the rollbackers
\* of the remaining appliers of the group and reaches wg.Wait()
NextApplier ==
  /\ pc = "run"
  /\ NextAppIdx = 0
  /\ appIdx < Len(Group)
  /\ appIdx' = Len(Group)
  /\ entIdx' = 0
  /\ rollbacks' = registerRollbackers(rollbacks, appIdx, Len(Group))
  /\ UNCHANGED <<pkg, secretsIn, hasStack, applyReqLimit, stack, plat, maps, secrets, nextID, st,
                 labelMappings, labelMappingsToRemove, pc, stage, workers, rbList,
                 collector, mErrs, cancelled, applyErr, rbPos, fails, hist>>

\* what the history keeps of a forward call that succeeded
HistForward(h, it, o) ==
  [h EXCEPT
     !.created = @ \cup {[kind |-> x.kind, id |-> x.id] : x \in {y \in o.plat : y.id >= nextID}},
     !.updated = @ \cup (IF it.app \in Kinds /\ o.called /\ IsExisting(st[StateKey(it.rk, it.rn)].status)
                           THEN {StateKey(it.rk, it.rn)} ELSE {}),
     !.removed = @ \cup (IF it.app \in Kinds /\ o.called /\ IsRemoval(st[StateKey(it.rk, it.rn)].status)
                           THEN {StateKey(it.rk, it.rn)} ELSE {}),
     !.mapsAdded = @ \cup (o.maps \ maps),
     !.mapsRemoved = @ \cup (maps \ o.maps)]

\* a goroutine of runTilEnd runs creater.fn: the call is answered, and on
\* success the entry is recorded for rollback under the mutex of the applier
WorkerCall(w) ==
  /\ w \in workers
  /\ w.pc = "call"
  /\ LET o == createFn(w.it, secretsIn, plat, maps, secrets, st, nextID)
     IN /\ o.ok
        /\ plat' = o.plat
        /\ maps' = o.maps
        /\ secrets' = o.secrets
        /\ st' = o.st
        /\ nextID' = o.nextID
        /\ rbList' = IF o.rec THEN [rbList EXCEPT ![w.it.app] = Append(@, w.it)] ELSE rbList
        /\ hist' = HistForward(hist, w.it, o)
  /\ workers' = workers \ {w}
  /\ UNCHANGED <<pkg, secretsIn, hasStack, applyReqLimit, stack, labelMappings, labelMappingsToRemove,
                 pc, stage, appIdx, entIdx, rollbacks, collector, mErrs, cancelled,
                 applyErr, rbPos, fails>>

\* creater.fn returns an error: the service refuses the call (the target is
\* gone) or the call fails for a reason of the environment
WorkerCallErr(w) ==
  /\ w \in workers
  /\ w.pc = "call"
  /\ LET o == createFn(w.it, secretsIn, plat, maps, secrets, st, nextID)
     IN /\ o.called
        /\ \/ ~o.ok /\ fails' = fails
           \/ o.ok /\ fails.fwd < MaxFails /\ fails' = [fails EXCEPT !.fwd = @ + 1]
  /\ workers' = (workers \ {w}) \cup {[w EXCEPT !.pc = "add"]}
  /\ hist' = [hist EXCEPT !.fwdErr = TRUE,
                          !.errStage = IF hist.fwdErr THEN @ ELSE stage]
  /\ UNCHANGED <<pkg, secretsIn, hasStack, applyReqLimit, stack, plat, maps, secrets, nextID, st,
                 labelMappings, labelMappingsToRemove, pc, stage, appIdx, entIdx,
                 rollbacks, rbList, collector, mErrs, cancelled, applyErr, rbPos>>

\* the context is cancelled while creater.fn waits for its service call: the
\* call returns the error of the context and creater.fn returns an error
WorkerCtxErr(w) ==
  /\ w \in workers
  /\ w.pc = "call"
  /\ LET o == createFn(w.it, secretsIn, plat, maps, secrets, st, nextID)
     IN o.called /\ o.ok
  /\ fails.fwd < MaxFails
  /\ fails' = [fails EXCEPT !.fwd = @ + 1]
  /\ cancelled' = TRUE
  /\ workers' = (workers \ {w}) \cup {[w EXCEPT !.pc = "add"]}
  /\ hist' = [hist EXCEPT !.fwdErr = TRUE,
                          !.errStage = IF hist.fwdErr THEN @ ELSE stage]
  /\ UNCHANGED <<pkg, secretsIn, hasStack, applyReqLimit, stack, plat, maps, secrets, nextID, st,
                 labelMappings, labelMappingsToRemove, pc, stage, appIdx, entIdx,
                 rollbacks, rbList, collector, mErrs, applyErr, rbPos>>

\* errStream.add, the send: the collector receives the message
WorkerAdd(w) ==
  /\ w \in workers
  /\ w.pc = "add"
  /\ collector = "recv"
  /\ mErrs' = mErrs \cup {w.it.app}
  /\ workers' = workers \ {w}
  /\ UNCHANGED <<pkg, secretsIn, hasStack, applyReqLimit, stack, plat, maps, secrets, nextID, st,
                 labelMappings, labelMappingsToRemove, pc, stage, appIdx, entIdx,
                 rollbacks, rbList, collector, cancelled, applyErr, rbPos, fails, hist>>

\* an errStream.add without the done case: the send is all it can do
WorkerDropNever(w) == FALSE

\* errStream.add, the done case: the message is dropped
WorkerDrop(w) ==
  /\ w \in workers
  /\ w.pc = "add"
  /\ cancelled
  /\ workers' = workers \ {w}
  /\ hist' = [hist EXCEPT !.swallowed = TRUE]
  /\ UNCHANGED <<pkg, secretsIn, hasStack, applyReqLimit, stack, plat, maps, secrets, nextID, st,
                 labelMappings, labelMappingsToRemove, pc, stage, appIdx, entIdx,
                 rollbacks, rbList, collector, mErrs, cancelled, applyErr, rbPos, fails>>

\* errStream.do, the done case: the collector gives up with a nil map.  Whether
\* it has given up shows only to a worker that wants to send, so the step is
\* taken when one is waiting.
CollectorQuit ==
  /\ pc = "run"
  /\ cancelled
  /\ collector = "recv"
  /\ \E w \in workers : w.pc = "add"
  /\ collector' = "quit"
  /\ UNCHANGED <<pkg, secretsIn, hasStack, applyReqLimit, stack, plat, maps, secrets, nextID, st,
                 labelMappings, labelMappingsToRemove, pc, stage, appIdx, entIdx,
                 workers, rollbacks, rbList, mErrs, cancelled, applyErr, rbPos, fails, hist>>

\* the caller cancels the context of the Apply.  Only the error stream reads
\* ctx.Done(), so the step is taken when the stream has something to lose: a
\* worker waits to send an error, or errors were collected and close is next.
Cancel ==
  /\ pc = "run"
  /\ ~cancelled
  /\ \/ \E w \in workers : w.pc = "add"
     \/ mErrs # {} /\ workers = {}
  /\ cancelled' = TRUE
  /\ UNCHANGED <<pkg, secretsIn, hasStack, applyReqLimit, stack, plat, maps, secrets, nextID, st,
                 labelMappings, labelMappingsToRemove, pc, stage, appIdx, entIdx,
                 workers, rollbacks, rbList, collector, mErrs, applyErr, rbPos, fails, hist>>

\* a wait group that does not wait
waitDoneEarly(ws) == TRUE

\* wg.Wait() returns: every entry of every applier of the group was started and
\* every goroutine is done
waitDone(ws) == ws = {}

StageDone ==
  /\ pc = "run"
  /\ appIdx = Len(Group)
  /\ entIdx = Len(CurEntries)
  /\ waitDone(workers)

\* an error stream that may lose what it collected although the context is live
closeResultsLossy(col, errs, canc) == {errs # {}, FALSE}

\* errStream.close: what the collector answers, given what it collected.  When
\* the context is done the collector may take the done case and answer nil.
closeResults(col, errs, canc) ==
  IF col = "quit" THEN {FALSE}
  ELSE {errs # {}} \cup (IF canc THEN {FALSE} ELSE {})

\* runTilEnd returns nil: applyState goes on to the next group, or returns nil
\* after the last one and the deferred rollback has nothing to do
RunTilEndOk ==
  /\ StageDone
  /\ FALSE \in closeResults(collector, mErrs, cancelled)
  /\ IF stage < NumStages
       THEN /\ stage' = stage + 1
            /\ pc' = "run"
       ELSE /\ stage' = stage
            /\ pc' = "stack"
  /\ appIdx' = 0
  /\ entIdx' = 0
  /\ collector' = "recv"
  /\ mErrs' = {}
  /\ hist' = [hist EXCEPT !.swallowed = @ \/ mErrs # {}]
  /\ UNCHANGED <<pkg, secretsIn, hasStack, applyReqLimit, stack, plat, maps, secrets, nextID, st,
                 labelMappings, labelMappingsToRemove, workers, rollbacks, rbList,
                 cancelled, applyErr, rbPos, fails>>

\* runTilEnd returns the collected errors: applyState returns them and the
\* deferred rollback starts
RunTilEndErr ==
  /\ StageDone
  /\ TRUE \in closeResults(collector, mErrs, cancelled)
  /\ pc' = "rollback"
  /\ applyErr' = "apply"
  /\ UNCHANGED <<pkg, secretsIn, hasStack, applyReqLimit, stack, plat, maps, secrets, nextID, st,
                 labelMappings, labelMappingsToRemove, stage, appIdx, entIdx, workers,
                 rollbacks, rbList, collector, mErrs, cancelled, rbPos, fails, hist>>

\* a rollback loop that returns at the first call that fails
rollbackNextAbort(pos, n, failed) == IF failed THEN n ELSE pos + 1

\* rollbackCoordinator.rollback: the loop goes on to the next rollbacker whether
\* or not a call failed
rollbackNext(pos, n, failed) == pos + 1

\* the error Apply returns once the rollback has run
rollbackErr(e, failed) == e

RollbackPlan == rollback(rollbacks, rbList, secretsIn)

\* the position of the next call the rollback makes: rollbackers that make no
\* call are passed on the way; one past the end when no call is left
NextCallPos ==
  IF \E p \in (rbPos + 1)..Len(RollbackPlan) : RollbackPlan[p].it # NoItem
    THEN CHOOSE p \in (rbPos + 1)..Len(RollbackPlan) :
           /\ RollbackPlan[p].it # NoItem
           /\ \A q \in (rbPos + 1)..(p - 1) : RollbackPlan[q].it = NoItem
    ELSE Len(RollbackPlan) + 1

\* the rollbackers invoked between two positions of the plan, in order
Invoked(from, to) ==
  LET sel == SelectSeq(SubSeq(RollbackPlan, from, to), LAMBDA e : e.first)
  IN [i \in 1..Len(sel) |-> sel[i].rb]

\* the deferred rollback goes on to its next call: the rollbackers passed on the
\* way are invoked, the call is made and its error, if any, is logged
Rollback ==
  /\ pc = "rollback"
  /\ NextCallPos <= Len(RollbackPlan)
  /\ LET p == NextCallPos
         o == rollbackFn(RollbackPlan[p].it, plat, maps, secrets, st, nextID)
     IN \E failed \in BOOLEAN :
          /\ failed => (~o.ok \/ (o.called /\ fails.comp < MaxCompFails))
          /\ ~failed => o.ok
          /\ fails' = IF failed /\ o.ok THEN [fails EXCEPT !.comp = @ + 1] ELSE fails
          /\ plat' = IF failed THEN plat ELSE o.plat
          /\ maps' = IF failed THEN maps ELSE o.maps
          /\ secrets' = IF failed THEN secrets ELSE o.secrets
          /\ st' = IF failed THEN st ELSE o.st
          /\ nextID' = IF failed THEN nextID ELSE o.nextID
          /\ rbPos' = rollbackNext(p - 1, Len(RollbackPlan), failed)
          /\ applyErr' = rollbackErr(applyErr, failed)
          /\ hist' = [hist EXCEPT !.order = @ \o Invoked(rbPos + 1, p),
                                  !.attempts = @ + 1,
                                  !.failedAt = IF failed /\ @ = 0
                                                 THEN hist.attempts + 1 ELSE @,
                                  !.compErr = @ \/ failed]
  /\ UNCHANGED <<pkg, secretsIn, hasStack, applyReqLimit, stack, labelMappings,
                 labelMappingsToRemove, pc, stage, appIdx, entIdx, workers,
                 rollbacks, rbList, collector, mErrs, cancelled>>

\* the deferred rollback has no call left: the remaining rollbackers are invoked
\* and it returns; the deferred stack update is next
RollbackEnd ==
  /\ pc = "rollback"
  /\ NextCallPos > Len(RollbackPlan)
  /\ pc' = "stack"
  /\ rbPos' = Len(RollbackPlan)
  /\ hist' = [hist EXCEPT !.order = @ \o Invoked(rbPos + 1, Len(RollbackPlan))]
  /\ UNCHANGED <<pkg, secretsIn, hasStack, applyReqLimit, stack, plat, maps, secrets,
                 nextID, st, labelMappings, labelMappingsToRemove, stage, appIdx,
                 entIdx, workers, rollbacks, rbList, collector, mErrs, cancelled,
                 applyErr, fails>>

\* -------------------------------------------------------------------- summary
\* stateRule.endpointPkgName
endpointPkgName(s, r) ==
  IF r.assoc # "" /\ StateKey(KEndpoint, r.assoc) \in DOMAIN s THEN r.assoc ELSE ""

\* the summarize method of a state record: stateRule.summarize reports r.id,
\* the others their ID()
summarize(s, k) ==
  [kind |-> k[1], pkg |-> k[2],
   id |-> IF k[1] = KRule THEN s[k].id ELSE ID(s[k]),
   name |-> s[k].name, val |-> s[k].val, labels |-> s[k].labels,
   epID |-> IF k[1] = KRule THEN endpointID(s, s[k]) ELSE 0,
   epPkg |-> IF k[1] = KRule THEN endpointPkgName(s, s[k]) ELSE ""]

\* stateLabelMapping.summarize
summarizeMapping(s, m) ==
  [status |-> m.ms, rk |-> m.rk, rn |-> m.rn, rid |-> ID(s[StateKey(m.rk, m.rn)]),
   ln |-> m.ln,
   lid |-> IF StateKey(KLabel, m.ln) \in DOMAIN s THEN ID(s[StateKey(KLabel, m.ln)]) ELSE 0]

\* stateCoordinator.summary: the records that are not marked for removal and
\* the label mappings of the state
summary(s, lm) ==
  [res |-> {summarize(s, k) : k \in {x \in DOMAIN s : ~IsRemoval(s[x].status)}},
   maps |-> {summarizeMapping(s, m) : m \in lm}]

\* the Summary Apply returns
Summary == summary(st, labelMappings)

\* ----------------------------------------------------------------------- diff
\* notificationRule.shouldRemove of the parsed rule of a record: the record
\* addObjectForRemoval builds leaves it at its zero value, and nothing sets it
shouldRemove(r) == FALSE

\* diffBucket, diffCheck, diffDashboard, diffEndpoint, diffLabel, diffRule,
\* diffTask, diffTelegraf, diffVariable: the identifier, the new values and,
\* when the record has an `existing`, the old ones
diffResource(s, k) ==
  [kind |-> k[1], pkg |-> k[2], id |-> ID(s[k]),
   remove |-> IF k[1] = KRule THEN shouldRemove(s[k]) ELSE IsRemoval(s[k].status),
   new |-> [name |-> s[k].name, val |-> s[k].val],
   old |-> IF s[k].existing # NoRes
             THEN [name |-> s[k].existing.name, val |-> s[k].existing.val]
             ELSE [name |-> "", val |-> ""]]

\* stateCoordinator.diff: one entry per record of the state
diff(s) == {diffResource(s, k) : k \in DOMAIN s}

\* the Diff that DryRun and Apply return
Diff == diff(st)

\* -------------------------------------------------------------- stack update
\* a stack update that keeps the records marked for removal
updateStackKeepRemoved(s) ==
  {[kind |-> k[1], pkg |-> k[2], id |-> ID(s[k]),
    assoc |-> labelAssociations(s, k),
    ep |-> IF k[1] = KRule THEN s[k].assoc ELSE ""] : k \in DOMAIN s}

\* updateStackAfterSuccess: the resources the stack is given
updateStackAfterSuccess(s) ==
  {[kind |-> k[1], pkg |-> k[2], id |-> ID(s[k]),
    assoc |-> labelAssociations(s, k),
    ep |-> IF k[1] = KRule THEN s[k].assoc ELSE ""] :
     k \in {x \in DOMAIN s : ~IsRemoval(s[x].status)}}

\* an updateStackAfterRollback that rewrites the stack as a successful Apply does
updateStackAsAfterSuccess(res, s) == updateStackAfterSuccess(s)

\* an updateStackAfterRollback that leaves the entries as they are
updateStackUntouched(res, s) == res

\* updateStackAfterRollback: the entries of the stack, with the id of a resource
\* the rollback created anew and the endpoint a rule is bound to
updateStackAfterRollback(res, s) ==
  {IF StateKey(r.kind, r.pkg) \in DOMAIN s
     THEN LET rec == s[StateKey(r.kind, r.pkg)]
          IN [r EXCEPT !.id = IF r.id # ID(rec) THEN rec.existing.id ELSE @,
                       !.ep = IF r.kind = KRule /\ r.ep # "" /\ r.ep # rec.assoc
                                THEN rec.assoc ELSE @]
     ELSE r : r \in res}

\* the deferred stack update of a successful Apply: always written
UpdateStackAfterSuccess ==
  /\ pc = "stack"
  /\ hasStack
  /\ applyErr = ""
  /\ stack' = [res |-> updateStackAfterSuccess(st), updatedAt |-> stack.updatedAt + 1]
  /\ pc' = "done"
  /\ UNCHANGED <<pkg, secretsIn, hasStack, applyReqLimit, plat, maps, secrets, nextID, st,
                 labelMappings, labelMappingsToRemove, stage, appIdx, entIdx, workers,
                 rollbacks, rbList, collector, mErrs, cancelled, applyErr, rbPos,
                 fails, hist>>

\* a deferred stack update of a failed Apply that is written every time
UpdateStackAfterRollbackAlways ==
  /\ pc = "stack"
  /\ hasStack
  /\ applyErr # ""
  /\ stack' = [res |-> updateStackAfterRollback(stack.res, st),
               updatedAt |-> stack.updatedAt + 1]
  /\ pc' = "done"
  /\ UNCHANGED <<pkg, secretsIn, hasStack, applyReqLimit, plat, maps, secrets, nextID, st,
                 labelMappings, labelMappingsToRemove, stage, appIdx, entIdx, workers,
                 rollbacks, rbList, collector, mErrs, cancelled, applyErr, rbPos,
                 fails, hist>>

\* the deferred stack update of a failed Apply: written only when an entry changed
UpdateStackAfterRollback ==
  /\ pc = "stack"
  /\ hasStack
  /\ applyErr # ""
  /\ LET res == updateStackAfterRollback(stack.res, st)
     IN stack' = IF res # stack.res
                   THEN [res |-> res, updatedAt |-> stack.updatedAt + 1]
                   ELSE stack
  /\ pc' = "done"
  /\ UNCHANGED <<pkg, secretsIn, hasStack, applyReqLimit, plat, maps, secrets, nextID, st,
                 labelMappings, labelMappingsToRemove, stage, appIdx, entIdx, workers,
                 rollbacks, rbList, collector, mErrs, cancelled, applyErr, rbPos,
                 fails, hist>>

\* Apply without a stack returns: the deferred stack update does nothing
Return ==
  /\ pc = "stack"
  /\ ~hasStack
  /\ pc' = "done"
  /\ UNCHANGED <<pkg, secretsIn, hasStack, applyReqLimit, stack, plat, maps, secrets, nextID, st,
                 labelMappings, labelMappingsToRemove, stage, appIdx, entIdx, workers,
                 rollbacks, rbList, collector, mErrs, cancelled, applyErr, rbPos,
                 fails, hist>>

\* the field value a later package changes a resource to
ValNext == "v2"

\* the packages a caller applies next to the stack that P was applied to: P
\* itself, P with every resource changed, and P without one of its resources
NextPkgs(P) ==
  {P, [k \in DOMAIN P |-> [P[k] EXCEPT !.val = ValNext]]}
    \cup {[k \in DOMAIN P \ {d} |->
             [P[k] EXCEPT !.labels = IF d[1] = KLabel THEN {} ELSE @]] : d \in DOMAIN P}

\* Apply is called again with the stack of an Apply that returned without an
\* error: a new state coordinator and rollback coordinator, the platform and
\* the stored stack as the first Apply left them
Reapply ==
  /\ pc = "done"
  /\ hasStack
  /\ applyErr = ""
  /\ ~hist.fwdErr
  /\ ~cancelled
  /\ hist.round = 1
  /\ \E P \in NextPkgs(pkg) : pkg' = P
  /\ hist' = [NoHist EXCEPT !.round = 2,
                            !.first = [pkg |-> pkg, sum |-> Summary, stack |-> stack.res],
                            !.plat0 = plat, !.maps0 = maps, !.stack0 = stack.res]
  /\ st' = << >>
  /\ labelMappings' = {}
  /\ labelMappingsToRemove' = {}
  /\ pc' = "start"
  /\ stage' = 0
  /\ appIdx' = 0
  /\ entIdx' = 0
  /\ workers' = {}
  /\ rollbacks' = << >>
  /\ rbList' = [a \in AllAppliers |-> << >>]
  /\ collector' = "idle"
  /\ mErrs' = {}
  /\ rbPos' = 0
  /\ UNCHANGED <<secretsIn, hasStack, applyReqLimit, stack, plat, maps, secrets, nextID,
                 cancelled, applyErr, fails>>

\* ------------------------------------------------------------ specification
Next ==
  \/ DryRun
  \/ ApplyStart
  \/ NextApplier
  \/ Spawn
  \/ \E w \in workers : WorkerCall(w)
  \/ \E w \in workers : WorkerCallErr(w)
  \/ \E w \in workers : WorkerCtxErr(w)
  \/ \E w \in workers : WorkerAdd(w)
  \/ \E w \in workers : WorkerDrop(w)
  \/ CollectorQuit
  \/ Cancel
  \/ RunTilEndOk
  \/ RunTilEndErr
  \/ Rollback
  \/ RollbackEnd
  \/ UpdateStackAfterSuccess
  \/ UpdateStackAfterRollback
  \/ Return

Spec == Init /\ [][Next]_vars

\* Apply up to the return of applyState: the dry run and the stages
NextStages ==
  \/ ApplyStart
  \/ Spawn
  \/ NextApplier
  \/ \E w \in workers : WorkerCall(w)
  \/ \E w \in workers : WorkerCallErr(w)
  \/ \E w \in workers : WorkerCtxErr(w)
  \/ \E w \in workers : WorkerAdd(w)
  \/ \E w \in workers : WorkerDrop(w)
  \/ CollectorQuit
  \/ Cancel
  \/ RunTilEndOk
  \/ RunTilEndErr

\* the steps the goroutines of an Apply take by themselves: every step but the
\* cancellation of the context
Scheduled == NextStages /\ cancelled' = cancelled

\* the stages of an Apply whose goroutines the scheduler keeps running: while
\* some goroutine can take a step, one is taken; the caller may cancel at any
\* time or never
\* (the Apply is one without a stack: the stack plays no part in a stage)
InitLive == Init /\ ~hasStack

SpecLive == InitLive /\ [][NextStages]_vars /\ WF_vars(Scheduled)

\* a stack that is applied to twice: the first Apply starts from an empty
\* platform and an empty stack
InitSeq == Init /\ plat = {}

NextSeq == Next \/ Reapply

SpecSeq == InitSeq /\ [][NextSeq]_vars

\* ------------------------------------------------------- dry-run scenarios
\* where the platform holds the resource of a kind: nowhere, under the id the
\* stack records, under the name of the package with another id, or both (the
\* one under the stack's id then has another name)
DryPlats == {"none", "id", "name", "both"}

OtherName == "b"

\* the id of a resource of the platform the stack does not know
OtherID(kind) == PlatID(kind) + 20

\* the id of the endpoint of the other name
AltID == PlatID(KEndpoint) + 40

\* alt: the stack recorded, for its rule, an endpoint of another pkg name than
\* the one the rule names in the package; altPkg: the package holds that
\* endpoint too; same: the package holds the values the platform has
DryPkg(S, inPkg, altPkg, same) ==
  [key \in {StateKey(k, PkgName) : k \in {x \in S : inPkg[x]}}
           \cup (IF altPkg THEN {StateKey(KEndpoint, OtherName)} ELSE {}) |->
     [name |-> key[2], val |-> IF same THEN ValOld ELSE ValNew, labels |-> {},
      ep |-> IF key[1] = KRule THEN PkgName ELSE ""]]

DryStack(S, inStack, alt) ==
  {[kind |-> k, pkg |-> PkgName, id |-> PlatID(k), assoc |-> {},
    ep |-> IF k = KRule THEN (IF alt THEN OtherName ELSE PkgName) ELSE ""] :
     k \in {x \in S : inStack[x]}}
  \cup
  (IF alt THEN {[kind |-> KEndpoint, pkg |-> OtherName, id |-> AltID,
                 assoc |-> {}, ep |-> ""]}
          ELSE {})

DryPlat(S, where, alt) ==
  {[kind |-> k, id |-> PlatID(k),
    name |-> IF where[k] = "both" THEN OtherName ELSE PkgName, val |-> ValOld,
    ep |-> IF k = KRule THEN PlatID(KEndpoint) ELSE 0] :
     k \in {x \in S : where[x] \in {"id", "both"}}}
  \cup
  {[kind |-> k, id |-> OtherID(k), name |-> PkgName, val |-> ValOld,
    ep |-> IF k = KRule THEN PlatID(KEndpoint) ELSE 0] :
     k \in {x \in S : where[x] \in {"name", "both"}}}
  \cup
  (IF alt THEN {[kind |-> KEndpoint, id |-> AltID, name |-> OtherName,
                 val |-> ValOld, ep |-> 0]}
          ELSE {})

\* a dry run of any package against any stack and any platform: what the
\* package holds, what the stack records and what the platform holds are
\* drawn independently of each other
InitDry ==
  \E S \in SUBSET Kinds, hs \in BOOLEAN, alt \in BOOLEAN, altPkg \in BOOLEAN,
     same \in BOOLEAN :
    /\ Cardinality(S) \in 1..MaxObjs
    /\ \E inPkg \in [S -> BOOLEAN], inStack \in [S -> BOOLEAN], where \in [S -> DryPlats] :
         /\ \A k \in S : inPkg[k] \/ inStack[k]
         /\ \A k \in S : inStack[k] => hs
         /\ alt => (KRule \in S /\ inStack[KRule] /\ inPkg[KRule])
         /\ alt => (KEndpoint \in S => where[KEndpoint] # "both")
         /\ altPkg => alt
         /\ same => \E k \in S : inPkg[k]
         /\ pkg = DryPkg(S, inPkg, altPkg, same)
         /\ hasStack = hs
         /\ stack = [res |-> DryStack(S, inStack, alt), updatedAt |-> 0]
         /\ plat = DryPlat(S, where, alt)
         /\ hist = [NoHist EXCEPT !.plat0 = DryPlat(S, where, alt),
                                  !.stack0 = DryStack(S, inStack, alt)]
    /\ secretsIn = {}
    /\ applyReqLimit = 1
    /\ maps = {}
    /\ secrets = {}
    /\ nextID = FirstNewID
    /\ st = << >>
    /\ labelMappings = {}
    /\ labelMappingsToRemove = {}
    /\ pc = "start"
    /\ stage = 0
    /\ appIdx = 0
    /\ entIdx = 0
    /\ workers = {}
    /\ rollbacks = << >>
    /\ rbList = [a \in AllAppliers |-> << >>]
    /\ collector = "idle"
    /\ mErrs = {}
    /\ cancelled = FALSE
    /\ applyErr = ""
    /\ rbPos = 0
    /\ fails = [fwd |-> 0, comp |-> 0]

NextDry == DryRun

SpecDry == InitDry /\ [][NextDry]_vars

\* ------------------------------------------------- dry run, failing lookups
\* what the lookups of the dry run get when the service of one kind answers
\* every call with a transport error: nothing of that kind
LookupView(P, kind) == {r \in P : r.kind # kind}

\* the dry run calls the service of the kind: the endpoints and the variables
\* are listed in any case, a bucket, check or label is looked up by id or by
\* name, a record of another kind only when it has an id
LooksUp(s, kind) ==
  \/ kind \in {KEndpoint, KVariable}
  \/ \E k \in DOMAIN s : k[1] = kind /\ (kind \in ByNameKinds \/ ID(s[k]) # 0)

\* Service.DryRun while the service of one kind fails every lookup with a
\* transport error: dryRunNotificationEndpoints returns the error wrapped as
\* internal, the dry runs of the other kinds drop it
DryRunLookupErr ==
  /\ pc = "start"
  /\ \E kind \in Kinds :
       LET s0 == newStateCoordinator(pkg)
           s2 == IF hasStack THEN addStackState(s0, stack.res) ELSE s0
           d == dryRun(pkg, hasStack, stack.res, LookupView(plat, kind), maps)
       IN /\ LooksUp(s2, kind)
          /\ hist' = [hist EXCEPT !.lookupErr = kind]
          /\ IF kind = KEndpoint
               THEN /\ applyErr' = EInternal
                    /\ UNCHANGED <<st, labelMappings, labelMappingsToRemove>>
               ELSE /\ st' = d.st
                    /\ labelMappings' = d.labelMappings
                    /\ labelMappingsToRemove' = d.labelMappingsToRemove
                    /\ applyErr' = IF d.err THEN EUnprocessableEntity ELSE ""
  /\ pc' = "dry_done"
  /\ UNCHANGED <<pkg, secretsIn, hasStack, applyReqLimit, stack, plat, maps, secrets, nextID,
                 stage, appIdx, entIdx, workers, rollbacks, rbList, collector, mErrs,
                 cancelled, rbPos, fails>>

\* the parse error Pkg.Validate and Pkg.applyEnvRefs report
ParseErr == "parse error"

\* Service.dryRun, the head: the parse error it carries to its end, for a
\* package that is not parsed and whose validation reports a parse error.
\* With env refs the result of applyEnvRefs takes its place.
dryRunParseErr(envRefs, envErr) ==
  IF envRefs THEN (IF envErr THEN ParseErr ELSE "") ELSE ParseErr

\* Service.DryRun of a package that is not parsed and whose validation reports
\* a parse error, with env refs (whose application may report a parse error
\* too) or without: dryRun builds the state and returns it with the parse
\* error, and DryRun returns an empty Summary and Diff with any error
DryRunUnparsed ==
  /\ pc = "start"
  /\ \E envRefs \in BOOLEAN, envErr \in BOOLEAN :
       LET d == dryRun(pkg, hasStack, stack.res, plat, maps)
           err == IF d.err THEN EUnprocessableEntity
                  ELSE dryRunParseErr(envRefs, envErr)
       IN /\ envErr => envRefs
          /\ applyErr' = err
          /\ st' = IF err # "" THEN << >> ELSE d.st
          /\ labelMappings' = IF err # "" THEN {} ELSE d.labelMappings
          /\ labelMappingsToRemove' = IF err # "" THEN {} ELSE d.labelMappingsToRemove
  /\ hist' = [hist EXCEPT !.unparsed = TRUE]
  /\ pc' = "dry_done"
  /\ UNCHANGED <<pkg, secretsIn, hasStack, applyReqLimit, stack, plat, maps, secrets, nextID,
                 stage, appIdx, entIdx, workers, rollbacks, rbList, collector, mErrs,
                 cancelled, rbPos, fails>>

NextDryErr == DryRun \/ DryRunLookupErr \/ DryRunUnparsed

SpecDryErr == InitDry /\ [][NextDryErr]_vars

\* -------------------------------------------------------------- properties
Reverse(s) == [i \in 1..Len(s) |-> s[Len(s) + 1 - i]]

\* Apply has returned
Returned == pc = "done"

\* DryRun has returned
DryRunReturned == pc = "dry_done"

\* the deferred rollback has run to its end
RolledBack == pc \in {"stack", "done"} /\ applyErr = "apply"

\* the stage the claim assigns to an applier
StageOf(app) ==
  IF app = ASecrets THEN 1
  ELSE IF app = KLabel THEN 2
  ELSE IF app \in {KVariable, KBucket, KCheck, KDashboard, KEndpoint, KTask, KTelegraf} THEN 3
  ELSE IF app = KRule THEN 4
  ELSE 5

\* the snapshot of a resource of kind `kind` taken before the Apply
Snapshot(kind) == {r \in hist.plat0 : r.kind = kind}

\* the label mappings as they sit on the resources: resource and label by name
MapsOf(P, M) ==
  {<<r.kind, r.name, l.name>> :
     <<r, l>> \in {x \in P \X P :
                     /\ x[2].kind = KLabel
                     /\ [rt |-> x[1].kind, rid |-> x[1].id, lid |-> x[2].id] \in M}}

\* no compensation call was failed by the environment
CompensationsSucceed == fails.comp = 0

\* C1: if a service call failed during Apply then, once Apply has returned,
\* every resource this Apply created is absent from the platform.
C1_CreatedAbsent ==
  (Returned /\ hist.fwdErr /\ CompensationsSucceed) =>
    \A c \in hist.created : FindByID(plat, c.kind, c.id) = NoRes

\* C2: if a service call failed during Apply then, once Apply has returned,
\* every resource this Apply updated holds the field values it held before.
C2_UpdatedRestored ==
  (Returned /\ hist.fwdErr /\ ~cancelled /\ CompensationsSucceed) =>
    \A k \in hist.updated : \A r0 \in Snapshot(k[1]) :
      \E r \in plat : /\ r.kind = r0.kind /\ r.id = r0.id
                      /\ r.name = r0.name /\ r.val = r0.val

C4_MappingsRestored ==
  (/\ Returned /\ applyErr = "apply" /\ ~cancelled /\ CompensationsSucceed
   /\ rbList[ALabelMapping] \o rbList[ARemovedLabelMapping] # << >>) =>
    MapsOf(plat, maps) = MapsOf(hist.plat0, hist.maps0)

\* C14: after a successful Apply every rule of the Summary carries the id of
\* the endpoint record its endpoint pkg-name names, that endpoint is on the
\* platform under this id, and the rule on the platform carries the same id.
C14_RuleBinding ==
  (Returned /\ applyErr = "" /\ ~hist.fwdErr) =>
    \A r \in Summary.res :
      r.kind = KRule =>
        /\ r.epPkg # ""
        /\ r.epID = ID(st[StateKey(KEndpoint, r.epPkg)])
        /\ FindByID(plat, KEndpoint, r.epID) # NoRes
        /\ FindByID(plat, KRule, r.id) # NoRes
        /\ FindByID(plat, KRule, r.id).ep = r.epID

\* the ids of the labels the label service answers for the resource of kind k
\* with id rid, on the platform P with the mappings M
MappedLabels(P, M, k, rid) == {l.id : l \in FindResourceLabels(P, M, k, rid)}

\* the ids of the labels the package associates with its resource key
PkgLabels(key) == {ID(st[StateKey(KLabel, ln)]) : ln \in pkg[key].labels}

\* the ids of the labels the stack recorded as associated with the resource key
StackLabels(key) ==
  {l.id : l \in {x \in hist.stack0 :
                   /\ x.kind = KLabel
                   /\ \E r \in hist.stack0 :
                        r.kind = key[1] /\ r.pkg = key[2] /\ x.pkg \in r.assoc}}

\* Apply returned without an error and no service call failed
Succeeded == Returned /\ applyErr = "" /\ ~hist.fwdErr

\* C15 as stated: after a successful Apply the labels mapped to a resource of
\* the package on the label service are exactly the labels the package
\* associates with it.
C15_MappingsExactlyPkg ==
  Succeeded =>
    \A key \in DOMAIN pkg :
      key[1] # KLabel =>
        MappedLabels(plat, maps, key[1], ID(st[key])) = PkgLabels(key)

\* C15 amended: after a successful Apply the labels mapped to a resource of
\* the package are the labels the package associates with it, together with
\* the labels that were mapped to it before the Apply, are still on the
\* platform and are not recorded by the stack as an association of it.
C15_MappingsConverge ==
  Succeeded =>
    \A key \in DOMAIN pkg :
      key[1] # KLabel =>
        MappedLabels(plat, maps, key[1], ID(st[key])) =
          PkgLabels(key) \cup
            ((MappedLabels(hist.plat0, hist.maps0, key[1], ID(st[key]))
               \cap MappedLabels(plat, hist.maps0, key[1], ID(st[key])))
             \ StackLabels(key))

\* a successful Apply that added a mapping of the package and kept one
C15_Witness ==
  /\ Succeeded
  /\ \E key \in DOMAIN pkg : key[1] # KLabel /\ PkgLabels(key) # {}
  /\ hist.mapsAdded # {}

\* the resources the rollback created anew for the record `key` that the Apply
\* had deleted: they are on the platform under an id the platform did not
\* have before the Apply
Recreated(key) ==
  {r \in plat : /\ key \in hist.removed
                /\ r.kind = key[1]
                /\ r.id \notin {x.id : x \in hist.plat0}}

\* C17: after a failed Apply with a stack, once the rollback is over and the
\* stack is written, the stack entry of every resource that the Apply deleted
\* and the rollback created anew records the id of the new resource.
C17_StackFollowsRecreated ==
  (Returned /\ RolledBack /\ hasStack) =>
    \A key \in hist.removed :
      \A r \in Recreated(key) :
        /\ \E e \in stack.res : e.kind = key[1] /\ e.pkg = key[2]
        /\ \A e \in stack.res :
             (e.kind = key[1] /\ e.pkg = key[2]) =>
               e.id = r.id /\ FindByID(plat, e.kind, e.id) = r

\* a failed Apply with a stack whose rollback created a deleted resource anew
C17_Witness ==
  /\ Returned /\ RolledBack /\ hasStack
  /\ \E key \in hist.removed : Recreated(key) # {}

\* C18: DryRun writes nothing: when it has returned, the resources, the label
\* mappings and the secrets of the platform and the stored stack are what they
\* were before it, and no id was handed out by a create.
C18_DryRunNoWrites ==
  DryRunReturned =>
    /\ plat = hist.plat0
    /\ maps = hist.maps0
    /\ secrets = {}
    /\ stack = [res |-> hist.stack0, updatedAt |-> 0]
    /\ nextID = FirstNewID

\* a DryRun of a package with secrets returned a state that plans a change
C18_Witness ==
  /\ DryRunReturned
  /\ applyErr = ""
  /\ secretsIn # {}
  /\ \E k \in DOMAIN st : ~IsExisting(st[k].status)

\* the second Apply to the stack has returned without an error
SecondSucceeded == hist.round = 2 /\ Succeeded

\* the resources of the package of the first Apply that the package of the
\* second Apply does not hold
Dropped == DOMAIN hist.first.pkg \ DOMAIN pkg

\* the entry the stack held for a resource after the first Apply
FirstEntry(key) ==
  CHOOSE e \in hist.first.stack : e.kind = key[1] /\ e.pkg = key[2]

\* C11: when a package was applied to a stack and then a second package, both
\* without an error, every resource of the first that the second does not
\* hold was deleted by the second Apply: a delete call was made for it, the
\* platform no longer has it, and the stack has no entry for it.
C11_DroppedDeleted ==
  SecondSucceeded =>
    \A key \in Dropped :
      /\ key \in hist.removed
      /\ FindByID(plat, key[1], FirstEntry(key).id) = NoRes
      /\ ~\E e \in stack.res : e.kind = key[1] /\ e.pkg = key[2]

\* a second Apply that succeeded on a package without one of the resources of
\* the first
C11_Witness == SecondSucceeded /\ Dropped # {}

\* the second Apply to the stack is of the package of the first
SamePkgAgain == hist.round = 2 /\ pkg = hist.first.pkg

\* the call the worker of an entry is about to make is a create or a delete on
\* a resource service or the label-mapping service
CreateOrDeleteCall(it) ==
  /\ createFn(it, secretsIn, plat, maps, secrets, st, nextID).called
  /\ \/ it.app \in {ALabelMapping, ARemovedLabelMapping}
     \/ it.app \in Kinds /\ ~IsExisting(st[StateKey(it.rk, it.rn)].status)

\* the resources of a platform by kind and id
Identities(P) == {[kind |-> r.kind, id |-> r.id] : r \in P}

\* C12: when the package of a successful Apply is applied again to the same
\* stack, the second Apply makes no create and no delete call on a resource
\* service or the label-mapping service: no worker is about to make one, and
\* the resources and label mappings on the platform stay the ones the first
\* Apply left, through the stages and a rollback alike.
C12_NoCreateNoDelete ==
  SamePkgAgain =>
    /\ \A w \in workers : w.pc = "call" => ~CreateOrDeleteCall(w.it)
    /\ hist.created = {} /\ hist.removed = {}
    /\ hist.mapsAdded = {} /\ hist.mapsRemoved = {}
    /\ Identities(plat) = Identities(hist.plat0)
    /\ maps = hist.maps0

\* the package was applied again with success: its resource was written in
\* place and its label mapping was found in place
C12_Witness ==
  /\ SamePkgAgain /\ Succeeded
  /\ hist.updated # {}
  /\ labelMappings # {}

\* C13 as stated: the Summary of the second Apply of a package is the Summary
\* of the first, field by field.
C13_SummaryIdentical ==
  (SamePkgAgain /\ Succeeded) => Summary = hist.first.sum

\* a label mapping of a Summary without its status
WithoutStatus(m) == [rk |-> m.rk, rn |-> m.rn, rid |-> m.rid, ln |-> m.ln, lid |-> m.lid]

\* C13 amended: the Summary of the second Apply of a package lists the
\* resources of the first with the same platform ids, names, fields, label
\* associations and endpoint bindings, and the same label mappings between the
\* same ids; a mapping the first Summary reports as new is reported as
\* existing by the second.
C13_SummarySameButStatus ==
  (SamePkgAgain /\ Succeeded) =>
    /\ Summary.res = hist.first.sum.res
    /\ {WithoutStatus(m) : m \in Summary.maps}
         = {WithoutStatus(m) : m \in hist.first.sum.maps}
    /\ \A m \in Summary.maps : IsExisting(m.status)

\* the package was applied again with success and its Summary holds a
\* resource, a rule or a label mapping
C13_Witness ==
  /\ SamePkgAgain /\ Succeeded
  /\ Summary.res # {}
  /\ Summary.maps # {}

\* the resources that the package of the first Apply and the package of the
\* second both hold
Kept == IF hist.round = 2 THEN DOMAIN hist.first.pkg \cap DOMAIN pkg ELSE {}

\* C16: a resource that stays in the packages applied to a stack keeps its
\* platform id: through the second Apply, be it a success or a failure with
\* its rollback, the resource is on the platform under the id the stack
\* recorded after the first Apply, nothing of its kind is created, the stack
\* records no other id for it, and the Summary of a successful second Apply
\* reports that id.
C16_IdStable ==
  \A key \in Kept :
    LET id == FirstEntry(key).id
    IN /\ FindByID(plat, key[1], id) # NoRes
       /\ ~\E c \in hist.created : c.kind = key[1]
       /\ \A e \in stack.res : (e.kind = key[1] /\ e.pkg = key[2]) => e.id = id
       /\ (Returned /\ applyErr = "") =>
            /\ \E e \in stack.res : e.kind = key[1] /\ e.pkg = key[2]
            /\ \A r \in Summary.res : (r.kind = key[1] /\ r.pkg = key[2]) => r.id = id
            /\ \E r \in Summary.res : r.kind = key[1] /\ r.pkg = key[2]

\* a second Apply changed a resource that stayed in the package, with success
C16_Witness ==
  /\ SecondSucceeded
  /\ \E key \in Kept : /\ pkg[key].val # hist.first.pkg[key].val
                        /\ key \in hist.updated
                        /\ FindByID(plat, key[1], FirstEntry(key).id).val = pkg[key].val

\* a rule of the package names an endpoint that neither the package nor the
\* stack holds
UnknownEndpoint ==
  \E k \in DOMAIN pkg :
     /\ k[1] = KRule
     /\ StateKey(KEndpoint, pkg[k].ep) \notin DOMAIN pkg
     /\ ~(hasStack /\ \E r \in hist.stack0 : r.kind = KEndpoint /\ r.pkg = pkg[k].ep)

C20_CancellationPropagated ==
  (cancelled /\ hist.fwdErr) => /\ stage = hist.errStage
                                /\ Returned => applyErr # ""

\* C5: when Apply fails, the registered compensations are invoked in the reverse
\* of the order in which they were registered (strict LIFO).
C5_ReverseOrder == RolledBack => hist.order = Reverse(rollbacks)

\* C6: the stages run strictly in the order Secrets, Labels, primary resources,
\* NotificationRules, LabelMappings: the stage only ever moves to the next one,
\* it moves only when no worker is in flight, and every worker in flight
\* belongs to the running stage.
C6_StageOrder ==
  [][/\ stage' # stage => (stage' = stage + 1 /\ workers = {})
     /\ \A w \in workers' : StageOf(w.it.app) = stage']_vars

\* the primary stage is running a worker after the label stage did its work
C6_Witness == stage = 3 /\ workers # {} /\ rbList[KLabel] # << >>

\* C7: with a context that is not cancelled, once a worker of a stage reported an
\* error the stage is never left for a later one, the workers in flight are
\* those of that stage, and when runTilEnd returns every entry of the stage was
\* started and has completed and Apply carries a non-nil error.
C7_ErrorAbortsLaterStages ==
  (hist.fwdErr /\ ~cancelled) =>
    /\ stage = hist.errStage
    /\ \A w \in workers : StageOf(w.it.app) = hist.errStage
    /\ pc # "run" => /\ workers = {}
                     /\ appIdx = Len(Group)
                     /\ entIdx = Len(CurEntries)
                     /\ applyErr = "apply"

\* a worker reported an error while another worker of the stage is still calling
C7_Witness ==
  /\ pc = "run" /\ hist.fwdErr /\ ~cancelled
  /\ \E w \in workers : w.pc = "call"

\* C8: at every moment the number of operations in flight is at most the
\* configured width of the semaphore.
C8_WidthBound == Cardinality(workers) <= applyReqLimit

\* the semaphore is full while an entry waits to be started
C8_Witness ==
  pc = "run" /\ NextAppIdx # 0 /\ Cardinality(workers) = applyReqLimit

\* the calls the rollback has to make
PlannedCalls ==
  Len(SelectSeq(RollbackPlan, LAMBDA e : e.it # NoItem))

\* C9: a compensation that fails does not prevent any other one: at the end of
\* the rollback every registered rollbacker was invoked once and every call of
\* the plan was attempted; the error Apply returns is the apply error.
C9_AllCompensationsAttempted ==
  RolledBack =>
    /\ Len(hist.order) = Len(rollbacks)
    /\ SeqToSet(hist.order) = SeqToSet(rollbacks)
    /\ hist.attempts = PlannedCalls
    /\ applyErr = "apply"

\* a compensation failed and a later one was attempted all the same
C9_Witness ==
  Returned /\ hist.failedAt > 0 /\ hist.attempts > hist.failedAt

\* C10: after a successful Apply with a stack, the stack holds exactly one entry
\* per state record that is not marked for removal, with the kind and package
\* name of the record and its platform id, and no other entry.
C10_StackAfterSuccess ==
  (Returned /\ hasStack /\ applyErr = "") =>
    /\ {<<r.kind, r.pkg, r.id>> : r \in stack.res}
         = {<<k[1], k[2], ID(st[k])>> : k \in {x \in DOMAIN st : ~IsRemoval(st[x].status)}}
    /\ Cardinality(stack.res)
         = Cardinality({x \in DOMAIN st : ~IsRemoval(st[x].status)})

\* a successful Apply removed one resource of the stack and created another
C10_Witness ==
  /\ Returned /\ hasStack /\ applyErr = ""
  /\ \E k \in DOMAIN st : IsRemoval(st[k].status)
  /\ \E r \in stack.res : r.id >= FirstNewID

\* an Apply with a stack that returned without an error and changed nothing:
\* every record of the state exists, the platform, its label mappings and its
\* secrets are what they were, and the entries of the stack are the same
NothingChanged ==
  /\ Succeeded /\ hasStack
  /\ secretsIn = {}
  /\ DOMAIN st # {}
  /\ \A k \in DOMAIN st : IsExisting(st[k].status)
  /\ \A m \in labelMappings : IsExisting(m.ms)
  /\ labelMappingsToRemove = {}
  /\ plat = hist.plat0 /\ maps = hist.maps0
  /\ updateStackAfterSuccess(st) = hist.stack0

\* C21: a successful Apply with a stack that changes nothing leaves the stored
\* stack as it was, its time of update included.
C21_UnchangedStackNotWritten ==
  NothingChanged => stack = [res |-> hist.stack0, updatedAt |-> 0]

\* the forward service call of an entry was made and the service answered it
\* without an error: a resource was created, updated or deleted, a label
\* mapping was added or taken away, the secrets were put
CallSucceeded(it) ==
  IF it.app = ASecrets THEN secretsIn # {}
  ELSE IF it.app = ALabelMapping
    THEN \E m \in hist.mapsAdded :
           /\ m.rt = it.rk
           /\ m.rid = ID(st[StateKey(it.rk, it.rn)])
           /\ m.lid = ID(st[StateKey(KLabel, it.ln)])
  ELSE IF it.app = ARemovedLabelMapping
    THEN [rt |-> it.rk, rid |-> it.rid, lid |-> it.lid] \in hist.mapsRemoved
  ELSE LET key == StateKey(it.rk, it.rn)
       IN \/ key \in hist.updated
          \/ key \in hist.removed
          \/ [kind |-> key[1], id |-> st[key].id] \in hist.created

\* C22: at every moment the rollback list of every applier holds each record
\* at most once, and only records whose forward service call was made and
\* succeeded.
C22_RollbackListExact ==
  \A app \in AllAppliers :
    /\ Cardinality(SeqToSet(rbList[app])) = Len(rbList[app])
    /\ \A it \in SeqToSet(rbList[app]) : CallSucceeded(it)

\* the rules whose forward call succeeded and that the rollback restores or
\* creates anew: they were on the platform before the Apply
RestoredRules ==
  {StateKey(it.rk, it.rn) : it \in {x \in SeqToSet(rbList[KRule]) :
                                      ~IsNew(st[StateKey(x.rk, x.rn)].status)}}

\* a step of the rollback that writes a rule: the call is the compensation of
\* a rule and it changes the platform
RuleCompensation ==
  /\ pc = "rollback"
  /\ NextCallPos <= Len(RollbackPlan)
  /\ RollbackPlan[NextCallPos].it.app = KRule
  /\ plat' # plat

\* no call for an endpoint is left in the plan of the rollback, and every rule
\* the step writes is bound to an endpoint that is on the platform
EndpointsSettled ==
  /\ \A q \in NextCallPos..Len(RollbackPlan) : RollbackPlan[q].it.app # KEndpoint
  /\ \A r \in plat' \ plat :
       r.kind = KRule => FindByID(plat', KEndpoint, r.ep) # NoRes

C24_SecretsDeleted ==
  (RolledBack /\ ~hist.compErr /\ rbList[ASecrets] # << >>) =>
    secrets \cap secretsIn = {}

\* the resources of a kind that the Apply updated are, on the platform, what
\* the snapshot of the dry run holds
UpdatedRestored(kind) ==
  \A key \in hist.updated :
    key[1] = kind =>
      \A r0 \in Snapshot(kind) :
        r0.id = st[key].existing.id => FindByID(plat, kind, r0.id) = r0

\* C25: when an Apply updated an existing bucket and then failed, and no
\* compensating call failed, the bucket has the fields of its snapshot once
\* Apply has returned.
C25_BucketRestored ==
  (Returned /\ RolledBack /\ ~hist.compErr) => UpdatedRestored(KBucket)

\* C26: when an Apply updated an existing check and then failed, and no
\* compensating call failed, the check has the content of its snapshot once
\* Apply has returned.
C26_CheckRestored ==
  (Returned /\ RolledBack /\ ~hist.compErr) => UpdatedRestored(KCheck)

\* ------------------------------------------------------- dry-run lookups
\* the dry run has returned without an error
DryRunOk == DryRunReturned /\ applyErr = ""

\* the records of the state that are EXISTS or REMOVE
Known == {k \in DOMAIN st : IsExisting(st[k].status) \/ IsRemoval(st[k].status)}

\* the record carries an id of the stack that no resource of the platform has
StaleID(k) == st[k].id # 0 /\ FindByID(plat, k[1], st[k].id) = NoRes

\* C27 as stated: once the dry run has returned, every record that is EXISTS
\* and every record that is REMOVE has `existing` populated, whatever the stack
\* and the platform hold.
C27_ExistingPopulated ==
  DryRunOk => \A k \in Known : st[k].existing # NoRes

\* C27: once the dry run has returned, a record that is EXISTS or REMOVE has
\* `existing` populated unless its id comes from a stack entry whose resource
\* the platform no longer has; a resource the platform has under the record's id
\* is always attached.
C27_ExistingPopulatedUnlessStale ==
  DryRunOk =>
    \A k \in Known :
      /\ st[k].existing = NoRes => StaleID(k)
      /\ (st[k].id # 0 /\ ~StaleID(k)) => st[k].existing = FindByID(plat, k[1], st[k].id)

\* a dry run that left a REMOVE record with `existing` populated next to an
\* EXISTS record of a stale stack entry, which has none
C27_Witness ==
  /\ DryRunOk
  /\ \E k \in Known : IsRemoval(st[k].status) /\ st[k].existing # NoRes
  /\ \E k \in Known : IsExisting(st[k].status) /\ st[k].existing = NoRes /\ StaleID(k)

\* the kinds the dry run finds by name: buckets, checks, labels and variables
\* (the lookup by name when the id is zero) and notification endpoints
\* (findEndpoint)
NamedKinds == {KBucket, KCheck, KLabel, KVariable, KEndpoint}

\* the records the stack gave no id
NoID == {k \in DOMAIN st : st[k].id = 0}

\* the record has the resource of its name attached and is EXISTS
FoundByName(k) ==
  /\ st[k].existing = FindByName(plat, k[1], st[k].name)
  /\ IsExisting(st[k].status)

\* C28 as stated: for every kind, a record without an id whose name a resource
\* of the platform has gets that resource as `existing` and is promoted from NEW
\* to EXISTS.
C28_ByNameEveryKind ==
  DryRunOk =>
    \A k \in NoID : FindByName(plat, k[1], st[k].name) # NoRes => FoundByName(k)

\* C28: a bucket, check, label, variable or notification endpoint without an id
\* whose name a resource of the platform has gets that resource as `existing`
\* and is promoted from NEW to EXISTS; a dashboard, task, telegraf config or
\* notification rule without an id is not looked up at all: it stays NEW and
\* `existing` stays absent.
C28_ByNameWhereNamed ==
  DryRunOk =>
    \A k \in NoID :
      IF k[1] \in NamedKinds
        THEN FindByName(plat, k[1], st[k].name) # NoRes => FoundByName(k)
        ELSE st[k].existing = NoRes /\ IsNew(st[k].status)

\* a dry run that promoted a record found by its name, next to a record of a
\* kind without such a lookup that stayed NEW although its name is taken
C28_Witness ==
  /\ DryRunOk
  /\ \E k \in NoID :
       /\ k[1] \in NamedKinds
       /\ FoundByName(k)
       /\ st[k].existing.id = OtherID(k[1])
  /\ \E k \in NoID :
       /\ k[1] \notin NamedKinds
       /\ FindByName(plat, k[1], st[k].name) # NoRes
       /\ IsNew(st[k].status)

\* C29: once the dry run has returned, a record whose id comes from the stack
\* and that no resource of the platform has is left without `existing`, also
\* when a resource of the same name is on the platform; this holds for every
\* kind, notification endpoints included.
C29_IdOnly ==
  DryRunOk => \A k \in DOMAIN st : StaleID(k) => st[k].existing = NoRes

\* ------------------------------------------------------- reconciliation
\* the state after the first pass of addStackState over the stored stack
AfterPass1 == reconcileStackResources(newStateCoordinator(pkg), stack.res)

\* the keys the stack names
StackKeys == {StateKey(r.kind, r.pkg) : r \in stack.res}

\* C30: the first pass of addStackState gives every stack resource a record
\* with the stack's id, EXISTS when the package holds it and a new REMOVE record
\* when it does not, and leaves every package record the stack does not name
\* NEW; the dry run keeps these ids, and these EXISTS and REMOVE statuses.
C30_Pass1 ==
  hasStack =>
    /\ DOMAIN AfterPass1 = DOMAIN pkg \cup StackKeys
    /\ \A r \in stack.res :
         LET key == StateKey(r.kind, r.pkg)
         IN /\ AfterPass1[key].id = r.id
            /\ AfterPass1[key].status =
                 IF key \in DOMAIN pkg THEN StateStatusExists ELSE StateStatusRemove
    /\ \A key \in DOMAIN pkg \ StackKeys :
         AfterPass1[key].status = StateStatusNew /\ AfterPass1[key].id = 0
    /\ DryRunReturned =>
         /\ DOMAIN st = DOMAIN AfterPass1
         /\ \A key \in DOMAIN st :
              /\ st[key].id = AfterPass1[key].id
              /\ ~IsNew(AfterPass1[key].status) => st[key].status = AfterPass1[key].status

\* a dry run against a stack one resource of which the package holds and one
\* resource of which it dropped
C30_Witness ==
  /\ DryRunReturned
  /\ hasStack
  /\ \E r \in stack.res :
       /\ StateKey(r.kind, r.pkg) \in DOMAIN pkg
       /\ IsExisting(st[StateKey(r.kind, r.pkg)].status)
       /\ st[StateKey(r.kind, r.pkg)].id = r.id
  /\ \E r \in stack.res :
       /\ StateKey(r.kind, r.pkg) \notin DOMAIN pkg
       /\ IsRemoval(st[StateKey(r.kind, r.pkg)].status)
       /\ st[StateKey(r.kind, r.pkg)].id = r.id

\* ------------------------------------------------- label mappings to remove
\* the labels the package associates with the resource of a key
PkgLabelsOf(key) == IF key \in DOMAIN pkg THEN pkg[key].labels ELSE {}

\* the associations the stack recorded before the Apply and the package lacks
DroppedAssociations ==
  {<<y[1].kind, y[1].pkg, y[2]>> :
     y \in {z \in hist.stack0 \X UNION {r.assoc : r \in hist.stack0} :
              /\ z[2] \in z[1].assoc
              /\ z[2] \notin PkgLabelsOf(StateKey(z[1].kind, z[1].pkg))}}

\* C31: once the state is built, the label mappings scheduled for removal are
\* exactly the associations the stack recorded before the Apply whose label the
\* package no longer associates with that resource; each carries the resource
\* id and the label id the stack records, and without a stack there is none.
C31_RemovalsExact ==
  pc # "start" =>
    /\ {<<m.rk, m.rn, m.ln>> : m \in labelMappingsToRemove} = DroppedAssociations
    /\ ~hasStack => labelMappingsToRemove = {}
    /\ \A m \in labelMappingsToRemove :
         /\ IsRemoval(m.ms)
         /\ \E r \in hist.stack0 :
              r.kind = m.rk /\ r.pkg = m.rn /\ m.ln \in r.assoc /\ m.rid = r.id
         /\ \A l \in hist.stack0 : (l.kind = KLabel /\ l.pkg = m.ln) => m.lid = l.id

\* a state built against a stack that records a label and an association to it
\* which the package dropped
C31_Witness ==
  /\ pc # "start"
  /\ hasStack
  /\ \E m \in labelMappingsToRemove : m.lid = PlatID(KLabel) /\ m.rid = PlatID(m.rk)
  /\ \E l \in hist.stack0 : l.kind = KLabel

\* ------------------------------------------------- rule to endpoint binding
\* the rules of the state that are not removed
LiveRules == {k \in DOMAIN st : k[1] = KRule /\ ~IsRemoval(st[k].status)}

\* the rule is bound to the endpoint record of the pkg name its package names
BoundAsNamed(k) ==
  /\ st[k].assoc = st[k].epName
  /\ StateKey(KEndpoint, st[k].assoc) \in DOMAIN st

\* C32: with a stack, once the dry run has returned every rule that is not
\* removed is bound to the endpoint record of the pkg name the rule names in the
\* package, also when the stack recorded another endpoint for the rule, and
\* that endpoint record is not REMOVE.
C32_BoundToNamedEndpoint ==
  (DryRunOk /\ hasStack) =>
    \A k \in LiveRules :
      /\ BoundAsNamed(k)
      /\ ~IsRemoval(st[StateKey(KEndpoint, st[k].assoc)].status)

\* ------------------------------------------------------------ shouldApply
\* the records of the kinds that have a shouldApply
Gated == {k \in DOMAIN st : k[1] \in {KBucket, KLabel, KVariable}}

\* some observable field of the parsed record differs from `existing`
Differs(r) == r.name # r.existing.name \/ r.val # r.existing.val

\* C33: for buckets, labels and variables shouldApply is true exactly when the
\* record is REMOVE, or has no `existing`, or differs from `existing` in an
\* observable field; a record that differs only in its name is applied.
C33_ShouldApplyExact ==
  DryRunOk =>
    \A k \in Gated :
      shouldApply(k[1], st[k]) <=>
        (IsRemoval(st[k].status) \/ st[k].existing = NoRes \/ Differs(st[k]))

\* -------------------------------------------------------- no-op updates
\* the EXISTS records whose parsed fields all equal those of `existing`
Unchanged ==
  {k \in DOMAIN st :
     /\ IsExisting(st[k].status)
     /\ st[k].existing # NoRes
     /\ st[k].name = st[k].existing.name
     /\ st[k].val = st[k].existing.val}

\* no call is made, or about to be made, for the record, and no compensation
\* is registered for it
NotApplied(k) ==
  /\ \A w \in workers :
       (w.pc = "call" /\ w.it.app = k[1] /\ w.it.rn = k[2]) =>
         ~createFn(w.it, secretsIn, plat, maps, secrets, st, nextID).called
  /\ k \notin hist.updated
  /\ \A it \in SeqToSet(rbList[k[1]]) : it.rn # k[2]

\* the kinds whose creater asks shouldApply before it calls the service
GatedKinds == {KBucket, KLabel, KVariable}

\* C34 as stated: for every kind, an EXISTS record whose parsed fields all equal
\* those of `existing` gets no update call and no compensation.
C34_NoOpEveryKind == \A k \in Unchanged : NotApplied(k)

\* C34: a bucket, label or variable that is EXISTS and whose parsed fields all
\* equal those of `existing` gets no update call and no compensation.
C34_NoOpWhereGated == \A k \in Unchanged : k[1] \in GatedKinds => NotApplied(k)

\* a successful Apply that left an unchanged record of a gated kind alone and
\* updated an unchanged record of another kind
C34_Witness ==
  /\ Succeeded
  /\ \E k \in Unchanged : k[1] \in GatedKinds /\ NotApplied(k)
  /\ \E k \in Unchanged : k[1] \notin GatedKinds /\ k \in hist.updated

\* ------------------------------------------------- stack after a rollback
\* Apply has returned an error and a stack was given
FailedWithStack == Returned /\ applyErr # "" /\ hasStack

\* every entry the stack held before the Apply still names the id its record
\* has and, for a rule, the endpoint its record is bound to
NoIdMoved ==
  \A e \in hist.stack0 :
    StateKey(e.kind, e.pkg) \in DOMAIN st =>
      /\ ID(st[StateKey(e.kind, e.pkg)]) = e.id
      /\ (e.kind = KRule /\ e.ep # "") => st[StateKey(e.kind, e.pkg)].assoc = e.ep

EntryKeys(res) == {StateKey(e.kind, e.pkg) : e \in res}

\* C36: a failed Apply with a stack adds no entry to the stored stack and takes
\* none away: once it has returned, the stack holds the (kind, pkg name) entries
\* it held before, each with the label associations it had; only ids and the
\* endpoint of a rule may differ.
C36_EntriesKept ==
  FailedWithStack =>
    /\ EntryKeys(stack.res) = EntryKeys(hist.stack0)
    /\ Cardinality(stack.res) = Cardinality(hist.stack0)
    /\ \A e \in stack.res :
         \E e0 \in hist.stack0 :
           e0.kind = e.kind /\ e0.pkg = e.pkg /\ e0.assoc = e.assoc

\* a failed Apply that wrote the stack, of a package with a resource the stack
\* does not hold
C36_Witness ==
  /\ FailedWithStack /\ RolledBack
  /\ stack.updatedAt > 0
  /\ DOMAIN pkg \ EntryKeys(hist.stack0) # {}

\* ------------------------------------------------------- removal in the Diff
\* C37: once the dry run has returned, every record of the state has one entry
\* in the Diff, and the entry's removal indicator is set exactly when the
\* record's status is REMOVE, for every kind, notification rules included.
C37_RemoveIndicator ==
  DryRunOk =>
    \A k \in DOMAIN st :
      /\ Cardinality({d \in Diff : d.kind = k[1] /\ d.pkg = k[2]}) = 1
      /\ \A d \in Diff :
           (d.kind = k[1] /\ d.pkg = k[2]) => (d.remove <=> IsRemoval(st[k].status))

\* ------------------------------------------------- lookups that fail
\* C38: when a lookup of the dry run fails with a transport error, the dry run
\* returns an internal error; the resource is not taken for absent.
C38_LookupErrIsInternal ==
  (DryRunReturned /\ hist.lookupErr # "") => applyErr = EInternal

\* ------------------------------------------------- packages that do not parse
\* what the dry run computes from the package, the stack and the platform
Computed == dryRun(pkg, hasStack, stack.res, plat, maps)

\* C39: when the validation of a package that is not parsed reports a parse
\* error and nothing else fails, DryRun returns the parse error together with
\* the Summary and the Diff of the state the dry run computed, with env refs or
\* without.
C39_ParseErrWithSummary ==
  (DryRunReturned /\ hist.unparsed /\ ~Computed.err) =>
    /\ applyErr = ParseErr
    /\ Summary = summary(Computed.st, Computed.labelMappings)
    /\ Diff = diff(Computed.st)

\* ------------------------------------------------------------ termination
\* runTilEnd is running the group of a stage
InStage(n) == pc = "run" /\ stage = n

\* C40: running a stage always terminates: a stage that has started returns,
\* whatever the workers, the collector and the caller's cancellation do, and
\* when it returns no worker is left waiting and every slot of the semaphore
\* is free.
C40_StageTerminates ==
  /\ \A n \in 1..NumStages : InStage(n) ~> ~InStage(n)
  /\ [][(pc = "run" /\ (pc' # "run" \/ stage' # stage)) => workers = {}]_vars

\* applyState has returned from its last stage although the context was
\* cancelled while a worker had an error to send
C40_Witness ==
  /\ pc \in {"rollback", "stack"}
  /\ cancelled
  /\ hist.fwdErr
  /\ workers = {}

====
